---- MODULE Spec2Model ----
(***************************************************************************)
(* The streaming zip / unzip engine of apps/server/src/lib/tasks:          *)
(* S3Zip (s3-zip.ts) and S3Unzip / S3UnzipEntry (s3-unzip.ts), run against *)
(* an object store that speaks the multipart protocol.                     *)
(*                                                                         *)
(* Every await on the object store is two steps: the request is issued by  *)
(* the step that reaches the await, and the response is a later step.      *)
(* Code between two awaits runs in one step (the event loop runs it to     *)
(* completion).                                                            *)
(***************************************************************************)
EXTENDS Integers, Sequences, FiniteSets, TLC

\* ------------------------------------------------------------ bounds
MaxPartSize == 2
MaxParallel == 2
MaxKeys == 2
MaxChunk == 2
HighWaterMark == 2
MaxFaults == 2
MaxJobs == 2
MaxRows == 3
MaxQueries == 4
READ_BATCH_SIZE == 2
FILE_BATCH_SIZE_LIMIT == 2

\* ------------------------------------------------------------ helpers
NoId == 0
NoObject == << [t |-> "none", n |-> "", b |-> 0] >>

RECURSIVE Concat(_)
Concat(ss) == IF ss = <<>> THEN <<>> ELSE Head(ss) \o Concat(Tail(ss))

RECURSIVE SumLen(_)
SumLen(ss) == IF ss = <<>> THEN 0 ELSE Len(Head(ss)) + SumLen(Tail(ss))

Range(s) == { s[i] : i \in DOMAIN s }

Min(a, b) == IF a < b THEN a ELSE b

\* The source objects of the bucket: a key is its path segments.
Bucket ==
  << [key |-> <<"a">>, body |-> <<>>],
     [key |-> <<"d", "a">>, body |-> <<21>>],
     [key |-> <<"b">>, body |-> <<31, 32, 33>>] >>

\* path.basename(inputKey)
basename(key) == key[Len(key)]

fileName(i) == basename(Bucket[i].key)

\* The tokens of a zip stream: a local header, the data, the data
\* descriptor that closes a streamed entry, the end of central directory.
Hdr(name) == [t |-> "H", n |-> name, b |-> 0]
DirHdr(name) == [t |-> "Hd", n |-> name, b |-> 0]
Dat(byte) == [t |-> "D", n |-> "", b |-> byte]
Dsc == [t |-> "X", n |-> "", b |-> 0]
Eocd == [t |-> "E", n |-> "", b |-> 0]

DatChunk(bytes) == [k \in 1..Len(bytes) |-> Dat(bytes[k])]

VARIABLES
  \* S3ArchiverOptions
  inputKeys, maxParallelFiles,
  \* zip(): position, the downloadFiles index, the caught error, the outcome
  zipPc, zi, zipErr, zipResult,
  \* S3Zip fields
  uploadId, partNumber, completedParts, zipFileSize, filePromises, promises,
  zipActive,
  \* uploadParts(): position, its buffer, the part in flight, its error
  uploadPc, buffer, zipPartNo, uploadFinal, uploadErr,
  \* archiver: queue, current entry, bytes read of it, finalize, ended; the
  \* bytes piped to the pass-through and not read yet
  aqueue, acur, aread, afinalize, aended, pipe,
  \* a cancel() started by an 'error' event
  cancelPc, cancelErr,
  \* the object store: multipart sessions, the zip object, injected faults
  sessions, zipObject, faults, faultLog, abortFailed,
  \* history: reads opened, entries signalled complete, the bytes that
  \* uploadParts() read
  reads, signalled, received,
  \* WorkspaceExport: the artifact rows saved
  artifacts,
  \* the task rows of the export and of the import, with their log levels
  \* and the way export() / import() ended
  tasks,
  \* unzip(): position, the caught error, the outcome, the aborts that
  \* S3Unzip.cancel() awaits
  unzipPc, unzipErr, unzipResult, cancelPending,
  \* S3Unzip fields; entries holds the S3UnzipEntry objects
  entries, outputKeys, extractedBytes,
  \* filesLimit of S3Unzip: the queued entries and the running count
  limitQueue, activeCount,
  \* unzipper.Parse: position, the record it is at, bytes fed of its entry
  parserPc, ppos, pfed,
  \* the objects written under the output prefix, in the order written
  objects,
  \* export(): the method it is in
  exportPc,
  \* the node_reactions table; exportNodeReactions(): its cursor, the SELECTs
  \* it sent, manifest.counts.nodeReactions
  reactions, lastRevision, queries, nodeReactions,
  \* the uploads table; exportUploads(): its cursor, the array fileKeys, its
  \* byte count; this.uploadFileKeys, which holds references to arrays
  uploads, lastFileId, fileKeys, filesSize, uploadFileKeys,
  \* history: the keys each batch held when it was pushed, and the inputKeys
  \* that zipUploadFiles() gave to each S3Zip; its loop index
  pushed, zipped, zui

exportVars ==
  << exportPc, reactions, lastRevision, queries, nodeReactions, uploads,
     lastFileId, fileKeys, filesSize, uploadFileKeys, pushed, zipped, zui >>

zipVars ==
  << inputKeys, maxParallelFiles, zipPc, zi, zipErr, zipResult, uploadId,
     partNumber, completedParts, zipFileSize, filePromises, promises,
     zipActive, uploadPc, buffer, zipPartNo, uploadFinal, uploadErr, aqueue,
     acur, aread, afinalize, aended, pipe, cancelPc, cancelErr, reads,
     signalled, received, artifacts, tasks, exportVars >>

storeVars == << sessions, zipObject, faults, faultLog, abortFailed >>

unzipVars ==
  << unzipPc, unzipErr, unzipResult, cancelPending, entries, outputKeys,
     extractedBytes, limitQueue, activeCount, parserPc, ppos, pfed, objects >>

vars == << zipVars, storeVars, unzipVars >>

\* ------------------------------------------------------------ object store
NewSession(owner) ==
  [owner |-> owner, parts |-> <<>>, status |-> "open", abortIssued |-> 0,
   completeIssued |-> 0, completeArg |-> <<>>]

Fault(kind) ==
  /\ faults < MaxFaults
  /\ faults' = faults + 1
  /\ faultLog' = Append(faultLog, kind)

NoFault == UNCHANGED << faults, faultLog >>

\* The body stored for part number n: the last successful upload of n.
PartBody(s, n) ==
  LET hits == { k \in DOMAIN s.parts : s.parts[k].PartNumber = n }
  IN  s.parts[CHOOSE k \in hits : \A j \in hits : j <= k].Body

\* CompleteMultipartUpload is accepted for an open session whose Parts are
\* uploaded parts listed in ascending order.
CompleteAccepted(s, parts) ==
  /\ s.status = "open"
  /\ \A k \in DOMAIN parts :
        \E j \in DOMAIN s.parts : s.parts[j].PartNumber = parts[k].PartNumber
  /\ \A k \in 1..(Len(parts) - 1) :
        parts[k].PartNumber < parts[k + 1].PartNumber

Assemble(s, parts) ==
  Concat([k \in DOMAIN parts |-> PartBody(s, parts[k].PartNumber)])

IssueAbort(ss, id) ==
  [ss EXCEPT ![id].abortIssued = @ + 1]

IssueComplete(ss, id, parts) ==
  [ss EXCEPT ![id].completeIssued = @ + 1, ![id].completeArg = parts]

AbortOk(ss, id) ==
  [ss EXCEPT ![id].status = IF @ = "open" THEN "aborted" ELSE @]

\* An abort fails by an injected fault, or with NoSuchUpload when the
\* session is no longer open (the store may also answer that one with 204).
AbortFails(id) ==
  \/ /\ sessions[id].status # "open"
     /\ NoFault
  \/ Fault("AbortError")

\* ------------------------------------------------------------ S3Zip
\* filePromises: Map<string, FilePromise>, as {name, idx} pairs
MapSet(m, name, i) ==
  { p \in m : p.name # name } \cup { [name |-> name, idx |-> i] }

MapDelete(m, name) == { p \in m : p.name # name }

\* a lookup that takes the oldest promise of the map, whatever its name
MapGetOldest(m, name) ==
  IF m # {}
    THEN (CHOOSE p \in m : \A q \in m : p.idx <= q.idx).idx
    ELSE 0

\* this.filePromises.get(fileName)
MapGet(m, name) ==
  IF \E p \in m : p.name = name
    THEN (CHOOSE p \in m : p.name = name).idx
    ELSE 0

Pending == [state |-> "pending", err |-> ""]

\* for (const filePromise of this.filePromises.values()) filePromise.reject(error)
RejectAll(ps, m, err) ==
  [i \in DOMAIN ps |->
     IF (\E p \in m : p.idx = i) /\ ps[i].state = "pending"
       THEN [state |-> "rejected", err |-> err]
       ELSE ps[i]]

\* a cancel() that sends no abort
CancelSkipsAbort(uid) == FALSE

\* cancel(): if (this.uploadId)
CancelAborts(uid) == uid # NoId

\* a part counter that stays where it is
SamePartNumber(pn) == pn

\* uploadPart(): const partNumber = this.partNumber++
NextPartNumber(pn) == pn + 1

\* an uploadParts() that drops what is left in the buffer
RemainderDropped(buf) == FALSE

\* uploadParts(): if (buffer.length > 0) after the loop
RemainderUpload(buf) == Len(buf) > 0

\* a buffer that takes the new chunk in front
BufferPrepend(buf, chunk) == chunk \o buf

\* uploadParts(): buffer = Buffer.concat([buffer, chunk])
BufferConcat(buf, chunk) == buf \o chunk

\* uploadParts(): if (buffer.length >= this.maxPartSize)
PartReady(buf) == Len(buf) >= MaxPartSize

\* a downloadFile() that does not wait for the entry
DownloadNoWait(state) == TRUE

\* downloadFile(): await this.filesLimit(() => filePromise.promise)
DownloadAwaits(state) == state # "pending"

\* zip(): catch (error) { await this.cancel(error); throw error; }
ZipCatch(err, ss, ps, fp) ==
  /\ zipErr' = err
  /\ filePromises' = fp
  /\ IF CancelAborts(uploadId)
       THEN /\ sessions' = IssueAbort(ss, uploadId)
            /\ promises' = ps
            /\ zipPc' = "cancel"
            /\ zipResult' = zipResult
       ELSE /\ sessions' = ss
            /\ promises' = RejectAll(ps, fp, err)
            /\ zipPc' = "rejected"
            /\ zipResult' = err

\* downloadFiles(): the next iteration, or archiver.finalize() after the last
DownloadStep(i) ==
  /\ zi' = i
  /\ IF i > Len(inputKeys)
       THEN zipPc' = "finalize" /\ afinalize' = TRUE
       ELSE zipPc' = "get" /\ afinalize' = afinalize

\* zipDataFiles(): the log entry 'Zipping data file', then s3Zip.zip()
ZipStart ==
  /\ zipPc = "idle"
  /\ exportPc = "zipDataFiles"
  /\ tasks.export.status = "Running"
  /\ tasks' = [tasks EXCEPT !.export.logs = Append(@, "Info")]
  /\ zipPc' = "create"
  /\ UNCHANGED unzipVars
  /\ UNCHANGED << exportVars, artifacts, received, inputKeys, maxParallelFiles, zi, zipErr, zipResult,
                  uploadId, partNumber, completedParts, zipFileSize,
                  filePromises, promises, zipActive, uploadPc, buffer,
                  zipPartNo, uploadFinal, uploadErr, aqueue, acur, aread,
                  afinalize, aended, pipe, cancelPc, cancelErr, reads,
                  signalled, storeVars >>

\* createMultipartUpload() answered; uploadParts() starts; downloadFiles()
ZipCreateResp ==
  /\ zipPc = "create"
  /\ \/ /\ NoFault
        /\ sessions' = Append(sessions, NewSession(0))
        /\ uploadId' = Len(sessions) + 1
        /\ uploadPc' = "read"
        /\ DownloadStep(1)
        /\ UNCHANGED << zipErr, zipResult, filePromises, promises >>
     \/ /\ Fault("CreateUploadError")
        /\ ZipCatch("CreateUploadError", sessions, promises, filePromises)
        /\ UNCHANGED << uploadId, uploadPc, zi, afinalize >>
  /\ UNCHANGED unzipVars
  /\ UNCHANGED << exportVars, tasks, artifacts, received, inputKeys, maxParallelFiles, partNumber, completedParts,
                  zipFileSize, zipActive, buffer, zipPartNo, uploadFinal,
                  uploadErr, aqueue, acur, aread, aended, pipe, cancelPc,
                  cancelErr, reads, signalled, zipObject, abortFailed >>

\* downloadFile(): the GetObject of inputKeys[zi] answered
ZipGetResp ==
  /\ zipPc = "get"
  /\ LET src == inputKeys[zi]
         name == fileName(src)
     IN
     \/ /\ NoFault
        /\ aqueue' = Append(aqueue, zi)
        /\ promises' = [promises EXCEPT ![zi] = Pending]
        /\ filePromises' = MapSet(filePromises, name, zi)
        /\ reads' = reads \cup {zi}
        /\ zipActive' = zipActive + 1
        /\ zipPc' = "wait"
        /\ UNCHANGED << zi, afinalize, zipErr, zipResult, sessions >>
     \/ /\ Fault("NoBody")
        /\ DownloadStep(zi + 1)
        /\ UNCHANGED << aqueue, promises, filePromises, reads, zipActive,
                        zipErr, zipResult, sessions >>
     \/ /\ Fault("SourceReadError")
        /\ ZipCatch("SourceReadError", sessions, promises,
                    MapDelete(filePromises, name))
        /\ UNCHANGED << aqueue, reads, zipActive, zi, afinalize >>
  /\ UNCHANGED unzipVars
  /\ UNCHANGED << exportVars, tasks, artifacts, received, inputKeys, maxParallelFiles, uploadId, partNumber,
                  completedParts, zipFileSize, uploadPc, buffer, zipPartNo,
                  uploadFinal, uploadErr, acur, aread, aended, pipe, cancelPc,
                  cancelErr, signalled, zipObject, abortFailed >>

\* downloadFile(): the file promise settled
ZipFileSettled ==
  /\ zipPc = "wait"
  /\ DownloadAwaits(promises[zi].state)
  /\ zipActive' = zipActive - 1
  /\ IF promises[zi].state = "rejected"
       THEN /\ ZipCatch(promises[zi].err, sessions, promises,
                        MapDelete(filePromises, fileName(inputKeys[zi])))
            /\ UNCHANGED << zi, afinalize >>
       ELSE /\ DownloadStep(zi + 1)
            /\ UNCHANGED << zipErr, zipResult, filePromises, promises,
                            sessions >>
  /\ NoFault
  /\ UNCHANGED unzipVars
  /\ UNCHANGED << exportVars, tasks, artifacts, received, inputKeys, maxParallelFiles, uploadId, partNumber,
                  completedParts, zipFileSize, uploadPc, buffer, zipPartNo,
                  uploadFinal, uploadErr, aqueue, acur, aread, aended, pipe,
                  cancelPc, cancelErr, reads, signalled, zipObject,
                  abortFailed >>

\* await this.archiver.finalize() resolved: the encoder's stream has ended
ZipFinalized ==
  /\ zipPc = "finalize"
  /\ aended
  /\ zipPc' = "awaitUpload"
  /\ UNCHANGED unzipVars
  /\ UNCHANGED << exportVars, tasks, artifacts, received, inputKeys, maxParallelFiles, zi, zipErr, zipResult,
                  uploadId, partNumber, completedParts, zipFileSize,
                  filePromises, promises, zipActive, uploadPc, buffer,
                  zipPartNo, uploadFinal, uploadErr, aqueue, acur, aread,
                  afinalize, aended, pipe, cancelPc, cancelErr, reads,
                  signalled, storeVars >>

\* await uploadPromise settled; completeMultipartUpload() is issued
ZipUploadAwaited ==
  /\ zipPc = "awaitUpload"
  /\ uploadPc \in {"done", "failed"}
  /\ IF uploadPc = "failed"
       THEN ZipCatch(uploadErr, sessions, promises, filePromises)
       ELSE /\ sessions' = IssueComplete(sessions, uploadId, completedParts)
            /\ zipPc' = "complete"
            /\ UNCHANGED << zipErr, zipResult, filePromises, promises >>
  /\ NoFault
  /\ UNCHANGED unzipVars
  /\ UNCHANGED << exportVars, tasks, artifacts, received, inputKeys, maxParallelFiles, zi, uploadId, partNumber,
                  completedParts, zipFileSize, zipActive, uploadPc, buffer,
                  zipPartNo, uploadFinal, uploadErr, aqueue, acur, aread,
                  afinalize, aended, pipe, cancelPc, cancelErr, reads,
                  signalled, zipObject, abortFailed >>

\* completeMultipartUpload() answered; zip() returns
ZipCompleteResp ==
  /\ zipPc = "complete"
  /\ \/ /\ CompleteAccepted(sessions[uploadId], completedParts)
        /\ NoFault
        /\ sessions' = [sessions EXCEPT ![uploadId].status = "completed"]
        /\ zipObject' = Assemble(sessions[uploadId], completedParts)
        /\ zipPc' = "returned"
        /\ zipResult' = "ok"
        /\ UNCHANGED << zipErr, filePromises, promises >>
     \/ /\ \/ ~CompleteAccepted(sessions[uploadId], completedParts) /\ NoFault
           \/ Fault("CompleteUploadError")
        /\ ZipCatch("CompleteUploadError", sessions, promises, filePromises)
        /\ UNCHANGED zipObject
  /\ UNCHANGED unzipVars
  /\ UNCHANGED << exportVars, tasks, artifacts, received, inputKeys, maxParallelFiles, zi, uploadId, partNumber,
                  completedParts, zipFileSize, zipActive, uploadPc, buffer,
                  zipPartNo, uploadFinal, uploadErr, aqueue, acur, aread,
                  afinalize, aended, pipe, cancelPc, cancelErr, reads,
                  signalled, abortFailed >>

\* cancel() called from zip()'s catch: the abort answered
ZipCancelResp ==
  /\ zipPc = "cancel"
  /\ \/ /\ NoFault
        /\ sessions' = AbortOk(sessions, uploadId)
        /\ promises' = RejectAll(promises, filePromises, zipErr)
        /\ zipResult' = zipErr
        /\ UNCHANGED abortFailed
     \/ /\ AbortFails(uploadId)
        /\ abortFailed' = TRUE
        /\ zipResult' = "AbortError"
        /\ UNCHANGED << sessions, promises >>
  /\ zipPc' = "rejected"
  /\ UNCHANGED unzipVars
  /\ UNCHANGED << exportVars, tasks, artifacts, received, inputKeys, maxParallelFiles, zi, zipErr, uploadId,
                  partNumber, completedParts, zipFileSize, filePromises,
                  zipActive, uploadPc, buffer, zipPartNo, uploadFinal,
                  uploadErr, aqueue, acur, aread, afinalize, aended, pipe,
                  cancelPc, cancelErr, reads, signalled, zipObject >>

\* ------------------------------------------------------------ uploadParts()
\* uploadPart(buffer): the part number is taken and the request sent
UploadPartIssue(buf, final) ==
  IF uploadId = NoId
    THEN /\ uploadPc' = "failed"
         /\ uploadErr' = "NoUploadId"
         /\ UNCHANGED << partNumber, zipPartNo, uploadFinal >>
         /\ buffer' = buf
    ELSE /\ zipPartNo' = partNumber
         /\ partNumber' = NextPartNumber(partNumber)
         /\ uploadFinal' = final
         /\ uploadPc' = "part"
         /\ buffer' = buf
         /\ UNCHANGED uploadErr

\* for await (const chunk of this.passThrough): one chunk; the 'data'
\* listener sees the same chunk
UploadRead ==
  /\ uploadPc = "read"
  /\ pipe # <<>>
  /\ LET chunk == Head(pipe)
         buf == BufferConcat(buffer, chunk)
     IN  /\ pipe' = Tail(pipe)
         /\ received' = received \o chunk
         /\ zipFileSize' = zipFileSize + Len(chunk)
         /\ IF PartReady(buf)
              THEN UploadPartIssue(buf, FALSE)
              ELSE /\ buffer' = buf
                   /\ UNCHANGED << uploadPc, uploadErr, partNumber,
                                   zipPartNo, uploadFinal >>
  /\ UNCHANGED unzipVars
  /\ UNCHANGED << exportVars, tasks, artifacts, inputKeys, maxParallelFiles, zipPc, zi, zipErr, zipResult,
                  uploadId, completedParts, filePromises, promises, zipActive,
                  aqueue, acur, aread, afinalize, aended, cancelPc, cancelErr,
                  reads, signalled, storeVars >>

\* the pass-through ended: the remainder, if any, is the last part
UploadEnd ==
  /\ uploadPc = "read"
  /\ pipe = <<>>
  /\ aended
  /\ IF RemainderUpload(buffer)
       THEN UploadPartIssue(buffer, TRUE)
       ELSE /\ uploadPc' = "done"
            /\ UNCHANGED << buffer, uploadErr, partNumber, zipPartNo,
                            uploadFinal >>
  /\ UNCHANGED unzipVars
  /\ UNCHANGED << exportVars, tasks, artifacts, received, inputKeys, maxParallelFiles, zipPc, zi, zipErr, zipResult,
                  uploadId, completedParts, zipFileSize, filePromises,
                  promises, zipActive, aqueue, acur, aread, afinalize, aended,
                  pipe, cancelPc, cancelErr, reads, signalled, storeVars >>

\* uploadPart(): the UploadPart request answered
UploadPartResp ==
  /\ uploadPc = "part"
  /\ \/ /\ sessions[uploadId].status = "open"
        /\ NoFault
        /\ sessions' = [sessions EXCEPT ![uploadId].parts =
             Append(@, [PartNumber |-> zipPartNo, Body |-> buffer])]
        /\ completedParts' =
             Append(completedParts, [PartNumber |-> zipPartNo, ETag |-> buffer])
        /\ buffer' = <<>>
        /\ uploadPc' = IF uploadFinal THEN "done" ELSE "read"
        /\ UNCHANGED uploadErr
     \/ /\ \/ sessions[uploadId].status # "open" /\ NoFault
           \/ Fault("UploadPartError")
        /\ uploadPc' = "failed"
        /\ uploadErr' = "UploadPartError"
        /\ UNCHANGED << sessions, completedParts, buffer >>
  /\ UNCHANGED unzipVars
  /\ UNCHANGED << exportVars, tasks, artifacts, received, inputKeys, maxParallelFiles, zipPc, zi, zipErr, zipResult,
                  uploadId, partNumber, zipFileSize, filePromises, promises,
                  zipActive, zipPartNo, uploadFinal, aqueue, acur, aread,
                  afinalize, aended, pipe, cancelPc, cancelErr, reads,
                  signalled, zipObject, abortFailed >>

\* ------------------------------------------------------------ archiver
\* The encoder writes while the streams between it and uploadParts() hold
\* less than their high-water mark.
PipeRoom == SumLen(pipe) < HighWaterMark

\* the queue hands the next appended entry to the encoder
EncStart ==
  /\ acur = 0
  /\ aqueue # <<>>
  /\ PipeRoom
  /\ acur' = Head(aqueue)
  /\ aqueue' = Tail(aqueue)
  /\ aread' = 0
  /\ pipe' = Append(pipe, << Hdr(fileName(inputKeys[Head(aqueue)])) >>)
  /\ UNCHANGED unzipVars
  /\ UNCHANGED << exportVars, tasks, artifacts, received, inputKeys, maxParallelFiles, zipPc, zi, zipErr, zipResult,
                  uploadId, partNumber, completedParts, zipFileSize,
                  filePromises, promises, zipActive, uploadPc, buffer,
                  zipPartNo, uploadFinal, uploadErr, afinalize, aended,
                  cancelPc, cancelErr, reads, signalled, storeVars >>

\* one chunk of the source body is read and encoded
EncData ==
  /\ acur # 0
  /\ PipeRoom
  /\ LET body == Bucket[inputKeys[acur]].body
     IN  \E n \in 1..Min(MaxChunk, Len(body) - aread) :
           /\ pipe' = Append(pipe, DatChunk(SubSeq(body, aread + 1, aread + n)))
           /\ aread' = aread + n
  /\ UNCHANGED unzipVars
  /\ UNCHANGED << exportVars, tasks, artifacts, received, inputKeys, maxParallelFiles, zipPc, zi, zipErr, zipResult,
                  uploadId, partNumber, completedParts, zipFileSize,
                  filePromises, promises, zipActive, uploadPc, buffer,
                  zipPartNo, uploadFinal, uploadErr, aqueue, acur, afinalize,
                  aended, cancelPc, cancelErr, reads, signalled, storeVars >>

\* an encoder that closes an entry whatever is left of its source
SourceEndedEarly(read, body) == TRUE

\* archiver closes the entry when the appended stream has ended
SourceEnded(read, body) == read = Len(body)

\* the source ended: the entry is closed and archiver emits 'entry'
\* (archiver.on('entry'): the promise filed under the entry's name resolves)
EncEntryDone ==
  /\ acur # 0
  /\ SourceEnded(aread, Bucket[inputKeys[acur]].body)
  /\ PipeRoom
  /\ pipe' = Append(pipe, << Dsc >>)
  /\ LET idx == MapGet(filePromises, fileName(inputKeys[acur]))
     IN  promises' =
           IF idx # 0 /\ promises[idx].state = "pending"
             THEN [promises EXCEPT ![idx] = [state |-> "resolved", err |-> ""]]
             ELSE promises
  /\ signalled' = signalled \cup {acur}
  /\ acur' = 0
  /\ UNCHANGED unzipVars
  /\ UNCHANGED << exportVars, tasks, artifacts, received, inputKeys, maxParallelFiles, zipPc, zi, zipErr, zipResult,
                  uploadId, partNumber, completedParts, zipFileSize,
                  filePromises, zipActive, uploadPc, buffer, zipPartNo,
                  uploadFinal, uploadErr, aqueue, aread, afinalize, aended,
                  cancelPc, cancelErr, reads, storeVars >>

\* the source stream or the encoder fails inside an entry: archiver emits
\* 'error' and the listener calls this.cancel(error) without awaiting it
EncError ==
  /\ acur # 0
  /\ cancelPc = "idle"
  /\ \E kind \in {"SourceReadError", "CodecError"} :
       /\ Fault(kind)
       /\ cancelErr' = kind
       /\ IF CancelAborts(uploadId)
            THEN /\ sessions' = IssueAbort(sessions, uploadId)
                 /\ cancelPc' = "abort"
                 /\ UNCHANGED promises
            ELSE /\ promises' = RejectAll(promises, filePromises, kind)
                 /\ cancelPc' = "done"
                 /\ UNCHANGED sessions
  /\ acur' = 0
  /\ UNCHANGED unzipVars
  /\ UNCHANGED << exportVars, tasks, artifacts, received, inputKeys, maxParallelFiles, zipPc, zi, zipErr, zipResult,
                  uploadId, partNumber, completedParts, zipFileSize,
                  filePromises, zipActive, uploadPc, buffer, zipPartNo,
                  uploadFinal, uploadErr, aqueue, aread, afinalize, aended,
                  pipe, reads, signalled, zipObject, abortFailed >>

\* finalize() with an idle queue: the central directory, then the end
EncFinalize ==
  /\ afinalize
  /\ ~aended
  /\ acur = 0
  /\ aqueue = <<>>
  /\ PipeRoom
  /\ pipe' = Append(pipe, << Eocd >>)
  /\ aended' = TRUE
  /\ UNCHANGED unzipVars
  /\ UNCHANGED << exportVars, tasks, artifacts, received, inputKeys, maxParallelFiles, zipPc, zi, zipErr, zipResult,
                  uploadId, partNumber, completedParts, zipFileSize,
                  filePromises, promises, zipActive, uploadPc, buffer,
                  zipPartNo, uploadFinal, uploadErr, aqueue, acur, aread,
                  afinalize, cancelPc, cancelErr, reads, signalled,
                  storeVars >>

\* the abort of the listener's cancel() answered
CancelResp ==
  /\ cancelPc = "abort"
  /\ \/ /\ NoFault
        /\ sessions' = AbortOk(sessions, uploadId)
        /\ promises' = RejectAll(promises, filePromises, cancelErr)
        /\ cancelPc' = "done"
        /\ UNCHANGED abortFailed
     \/ /\ AbortFails(uploadId)
        /\ abortFailed' = TRUE
        /\ cancelPc' = "failed"
        /\ UNCHANGED << sessions, promises >>
  /\ UNCHANGED unzipVars
  /\ UNCHANGED << exportVars, tasks, artifacts, received, inputKeys, maxParallelFiles, zipPc, zi, zipErr, zipResult,
                  uploadId, partNumber, completedParts, zipFileSize,
                  filePromises, zipActive, uploadPc, buffer, zipPartNo,
                  uploadFinal, uploadErr, aqueue, acur, aread, afinalize,
                  aended, pipe, cancelErr, reads, signalled, zipObject >>

\* ------------------------------------------------------------ WorkspaceExport
\* an export that saves the artifact whatever zip() did
ArtifactAnyway == zipPc \in {"returned", "rejected"}

\* zipDataFiles(): const { zipFileSize, zipFileName } = await s3Zip.zip()
\* comes before saveArtifact()
ArtifactAfterZip == zipPc = "returned"

\* zipDataFiles() / zipUploadFiles(): saveArtifact() after zip() returned
ExportSaveArtifact ==
  /\ ArtifactAfterZip
  /\ artifacts = <<>>
  /\ artifacts' = << [type |-> "application/zip", size |-> zipFileSize] >>
  /\ exportPc' = "zipUploadFiles"
  /\ UNCHANGED << reactions, lastRevision, queries, nodeReactions, uploads,
                  lastFileId, fileKeys, filesSize, uploadFileKeys, pushed,
                  zipped, zui >>
  /\ UNCHANGED unzipVars
  /\ UNCHANGED << tasks, received, inputKeys, maxParallelFiles, zipPc, zi, zipErr,
                  zipResult, uploadId, partNumber, completedParts, zipFileSize,
                  filePromises, promises, zipActive, uploadPc, buffer,
                  zipPartNo, uploadFinal, uploadErr, aqueue, acur, aread,
                  afinalize, aended, pipe, cancelPc, cancelErr, reads,
                  signalled, storeVars >>

\* ------------------------------------------------------------ execute_task
\* executeTaskHandler: the row exists and is not Completed, Failed or Running
PassesCheck(status) == status = "Pending"

\* executeTaskHandler up to the call of export() / import(): one job of the
\* task is handled, the row is loaded and its status checked; the handler
\* returns or goes on to the body. The import job is queued for an artifact
\* that is stored.
ExecuteTask(t) ==
  /\ tasks[t].jobs > 0
  /\ t = "import" => (zipPc \in {"off", "returned"} /\ zipObject # NoObject)
  /\ tasks' = [tasks EXCEPT
                 ![t].jobs = @ - 1,
                 ![t].passed = IF PassesCheck(tasks[t].status)
                                 THEN @ + 1 ELSE @]
  /\ UNCHANGED unzipVars
  /\ UNCHANGED << exportVars, artifacts, received, inputKeys, maxParallelFiles, zipPc, zi,
                  zipErr, zipResult, uploadId, partNumber, completedParts,
                  zipFileSize, filePromises, promises, zipActive, uploadPc,
                  buffer, zipPartNo, uploadFinal, uploadErr, aqueue, acur,
                  aread, afinalize, aended, pipe, cancelPc, cancelErr, reads,
                  signalled, storeVars >>

\* startTask() / markTaskAsRunning(): the row is set to Running whatever its
\* status is
MarkRunning(task) ==
  [task EXCEPT !.status = "Running", !.passed = @ - 1, !.started = @ + 1]

\* export(): await this.startTask(), in a handler that is past the check
ExportStart ==
  /\ tasks.export.passed > 0
  /\ tasks' = [tasks EXCEPT !.export = MarkRunning(@)]
  /\ exportPc' = IF exportPc = "idle" THEN "exportNodeReactions" ELSE exportPc
  /\ UNCHANGED << reactions, lastRevision, queries, nodeReactions, uploads,
                  lastFileId, fileKeys, filesSize, uploadFileKeys, pushed,
                  zipped, zui >>
  /\ UNCHANGED unzipVars
  /\ UNCHANGED << artifacts, received, inputKeys, maxParallelFiles, zipPc, zi,
                  zipErr, zipResult, uploadId, partNumber, completedParts,
                  zipFileSize, filePromises, promises, zipActive, uploadPc,
                  buffer, zipPartNo, uploadFinal, uploadErr, aqueue, acur,
                  aread, afinalize, aended, pipe, cancelPc, cancelErr, reads,
                  signalled, storeVars >>

\* ------------------------------------------------------------ export loops
\* lastRevision / lastFileId = null: no row has a key this small
NoCursor == 0

\* SELECT ... WHERE key > cursor ORDER BY key ASC LIMIT READ_BATCH_SIZE, on a
\* table held in key order; a null cursor adds no condition
Page(table, cursor) ==
  LET rest == SelectSeq(table, LAMBDA row : row.key > cursor)
  IN  SubSeq(rest, 1, Min(READ_BATCH_SIZE, Len(rest)))

\* exportNodeReactions(), the rows of one page that are not skipped
Live(page) == SelectSeq(page, LAMBDA row : ~row.deleted)

\* exportNodeReactions(): lastRevision = reaction.revision, reached only for
\* a reaction without deleted_at
CursorAfter(page, cursor) ==
  IF Live(page) = <<>> THEN cursor ELSE Live(page)[Len(Live(page))].key

\* exportNodeReactions(): one turn of while (hasMore), the SELECT and the
\* rows of its page; after the loop export() goes on to exportUploads()
ExportNodeReactionsPage ==
  /\ exportPc = "exportNodeReactions"
  /\ queries < MaxQueries
  /\ queries' = queries + 1
  /\ LET page == Page(reactions, lastRevision)
     IN  IF page = <<>>
           THEN /\ exportPc' = "exportUploads"
                /\ UNCHANGED << lastRevision, nodeReactions >>
           ELSE /\ lastRevision' = CursorAfter(page, lastRevision)
                /\ nodeReactions' = nodeReactions + Len(Live(page))
                /\ UNCHANGED exportPc
  /\ UNCHANGED << reactions, uploads, lastFileId, fileKeys, filesSize,
                  uploadFileKeys, pushed, zipped, zui >>
  /\ UNCHANGED unzipVars
  /\ UNCHANGED << tasks, artifacts, received, inputKeys, maxParallelFiles,
                  zipPc, zi, zipErr, zipResult, uploadId, partNumber,
                  completedParts, zipFileSize, filePromises, promises,
                  zipActive, uploadPc, buffer, zipPartNo, uploadFinal,
                  uploadErr, aqueue, acur, aread, afinalize, aended, pipe,
                  cancelPc, cancelErr, reads, signalled, storeVars >>

\* this.uploadFileKeys.push(fileKeys) stores a reference to the one array
\* that exportUploads() created; what a batch holds is what that array holds
FileKeysRef == "fileKeys"

Deref(ref, heap) == heap[ref]

\* exportUploads(), the body of for (const upload of uploads) on the locals
\* st: the cursor, fileKeys.push(path), filesSize, and the push of the batch
\* followed by fileKeys.splice(0, fileKeys.length)
UploadRow(upload, st) ==
  LET keys == IF upload.uploaded
                THEN Append(st.fileKeys, upload.path) ELSE st.fileKeys
      size == IF upload.uploaded
                THEN st.filesSize + upload.size ELSE st.filesSize
  IN  IF upload.uploaded /\ size >= FILE_BATCH_SIZE_LIMIT
        THEN [lastFileId |-> upload.key, fileKeys |-> <<>>, filesSize |-> 0,
              uploadFileKeys |-> Append(st.uploadFileKeys, FileKeysRef),
              pushed |-> Append(st.pushed, keys)]
        ELSE [st EXCEPT !.lastFileId = upload.key, !.fileKeys = keys,
                        !.filesSize = size]

RECURSIVE UploadRows(_, _)
UploadRows(page, st) ==
  IF page = <<>> THEN st ELSE UploadRows(Tail(page), UploadRow(Head(page), st))

\* exportUploads(): one turn of while (hasMore); after the loop nothing is
\* done with fileKeys, and export() goes on to zipDataFiles()
ExportUploadsPage ==
  /\ exportPc = "exportUploads"
  /\ LET page == Page(uploads, lastFileId)
         st == UploadRows(page,
                 [lastFileId |-> lastFileId, fileKeys |-> fileKeys,
                  filesSize |-> filesSize,
                  uploadFileKeys |-> uploadFileKeys, pushed |-> pushed])
     IN  IF page = <<>>
           THEN /\ exportPc' = "zipDataFiles"
                /\ UNCHANGED << lastFileId, fileKeys, filesSize,
                                uploadFileKeys, pushed >>
           ELSE /\ lastFileId' = st.lastFileId
                /\ fileKeys' = st.fileKeys
                /\ filesSize' = st.filesSize
                /\ uploadFileKeys' = st.uploadFileKeys
                /\ pushed' = st.pushed
                /\ UNCHANGED exportPc
  /\ UNCHANGED << reactions, lastRevision, queries, nodeReactions, uploads,
                  zipped, zui >>
  /\ UNCHANGED unzipVars
  /\ UNCHANGED << tasks, artifacts, received, inputKeys, maxParallelFiles,
                  zipPc, zi, zipErr, zipResult, uploadId, partNumber,
                  completedParts, zipFileSize, filePromises, promises,
                  zipActive, uploadPc, buffer, zipPartNo, uploadFinal,
                  uploadErr, aqueue, acur, aread, afinalize, aended, pipe,
                  cancelPc, cancelErr, reads, signalled, storeVars >>

\* zipUploadFiles(): one turn of for (let i = 0; i < uploadFileKeys.length;
\* i++), a new S3Zip with inputKeys = this.uploadFileKeys[i]; after the loop
\* export() goes on to completeTask()
ZipUploadFiles ==
  /\ exportPc = "zipUploadFiles"
  /\ IF zui < Len(uploadFileKeys)
       THEN /\ zipped' = Append(zipped,
                 Deref(uploadFileKeys[zui + 1], [fileKeys |-> fileKeys]))
            /\ zui' = zui + 1
            /\ UNCHANGED exportPc
       ELSE /\ exportPc' = "completeTask"
            /\ UNCHANGED << zipped, zui >>
  /\ UNCHANGED << reactions, lastRevision, queries, nodeReactions, uploads,
                  lastFileId, fileKeys, filesSize, uploadFileKeys, pushed >>
  /\ UNCHANGED unzipVars
  /\ UNCHANGED << tasks, artifacts, received, inputKeys, maxParallelFiles,
                  zipPc, zi, zipErr, zipResult, uploadId, partNumber,
                  completedParts, zipFileSize, filePromises, promises,
                  zipActive, uploadPc, buffer, zipPartNo, uploadFinal,
                  uploadErr, aqueue, acur, aread, afinalize, aended, pipe,
                  cancelPc, cancelErr, reads, signalled, storeVars >>

\* export() has no catch and import() only prints the error: the task row
\* and its logs stay as they are
TaskLeftAsIs(task, how) == [task EXCEPT !.outcome = how]

\* export(): the rest of the export after the artifact is saved, then
\* completeTask(); or zip() rejected and export() rejects with it, and
\* executeTaskHandler, which awaits it without a catch, rejects too
ExportSettle ==
  /\ tasks.export.status = "Running"
  /\ tasks.export.outcome = ""
  /\ \/ /\ artifacts # <<>>
        /\ exportPc = "completeTask"
        /\ tasks' = [tasks EXCEPT !.export.status = "Completed",
                                  !.export.outcome = "completed"]
     \/ /\ zipPc = "rejected"
        /\ tasks' = [tasks EXCEPT !.export = TaskLeftAsIs(@, "thrown")]
  /\ UNCHANGED unzipVars
  /\ UNCHANGED << exportVars, artifacts, received, inputKeys, maxParallelFiles, zipPc, zi,
                  zipErr, zipResult, uploadId, partNumber, completedParts,
                  zipFileSize, filePromises, promises, zipActive, uploadPc,
                  buffer, zipPartNo, uploadFinal, uploadErr, aqueue, acur,
                  aread, afinalize, aended, pipe, cancelPc, cancelErr, reads,
                  signalled, storeVars >>

\* ------------------------------------------------------------ WorkspaceImport
\* import(): await this.markTaskAsRunning(), in a handler that is past the
\* check
ImportStart ==
  /\ tasks.import.passed > 0
  /\ tasks' = [tasks EXCEPT !.import = MarkRunning(@)]
  /\ UNCHANGED unzipVars
  /\ UNCHANGED << exportVars, artifacts, received, inputKeys, maxParallelFiles, zipPc, zi,
                  zipErr, zipResult, uploadId, partNumber, completedParts,
                  zipFileSize, filePromises, promises, zipActive, uploadPc,
                  buffer, zipPartNo, uploadFinal, uploadErr, aqueue, acur,
                  aread, afinalize, aended, pipe, cancelPc, cancelErr, reads,
                  signalled, storeVars >>

\* import(): unzipArtifact() returned and the import runs on to
\* markTaskAsCompleted(); or unzip() rejected and the catch of import()
\* prints the error and returns
ImportSettle ==
  /\ tasks.import.status = "Running"
  /\ tasks.import.outcome = ""
  /\ \/ /\ unzipPc = "returned"
        /\ tasks' = [tasks EXCEPT !.import.status = "Completed",
                                  !.import.outcome = "completed"]
     \/ /\ unzipPc = "rejected"
        /\ tasks' = [tasks EXCEPT !.import = TaskLeftAsIs(@, "swallowed")]
  /\ UNCHANGED unzipVars
  /\ UNCHANGED << exportVars, artifacts, received, inputKeys, maxParallelFiles, zipPc, zi,
                  zipErr, zipResult, uploadId, partNumber, completedParts,
                  zipFileSize, filePromises, promises, zipActive, uploadPc,
                  buffer, zipPartNo, uploadFinal, uploadErr, aqueue, acur,
                  aread, afinalize, aended, pipe, cancelPc, cancelErr, reads,
                  signalled, storeVars >>

\* ------------------------------------------------------------ the zip format
\* What unzipper.Parse reads out of a zip stream: the entries in archive
\* order; ok is FALSE when the stream breaks off or holds an invalid record.
RECURSIVE DataEnd(_, _)
DataEnd(toks, pos) ==
  IF pos <= Len(toks) /\ toks[pos].t = "D"
    THEN DataEnd(toks, pos + 1)
    ELSE pos

RECURSIVE DecodeFrom(_, _)
DecodeFrom(toks, pos) ==
  IF pos > Len(toks) THEN [entries |-> <<>>, ok |-> FALSE]
  ELSE IF toks[pos].t = "E" THEN [entries |-> <<>>, ok |-> TRUE]
  ELSE IF toks[pos].t \in {"H", "Hd"}
    THEN LET e == DataEnd(toks, pos + 1)
             closed == e <= Len(toks) /\ toks[e].t = "X"
             entry == [path |-> toks[pos].n,
                       type |-> IF toks[pos].t = "H" THEN "File"
                                                     ELSE "Directory",
                       data |-> [k \in 1..(e - pos - 1) |-> toks[pos + k].b],
                       complete |-> closed]
         IN  IF closed
               THEN LET rest == DecodeFrom(toks, e + 1)
                    IN  [entries |-> << entry >> \o rest.entries,
                         ok |-> rest.ok]
               ELSE [entries |-> << entry >>, ok |-> FALSE]
  ELSE [entries |-> <<>>, ok |-> FALSE]

Decode(toks) == DecodeFrom(toks, 1)

\* What archiver writes for a list of entries.
EncodeEntry(e) ==
  << IF e.type = "File" THEN Hdr(e.path) ELSE DirHdr(e.path) >>
    \o DatChunk(e.data) \o << Dsc >>

EncodeEntries(es) ==
  Concat([k \in DOMAIN es |-> EncodeEntry(es[k])]) \o << Eocd >>

\* ------------------------------------------------------------ S3Unzip
\* options.outputPrefix, "/imp": a leading empty segment is a leading "/"
OutputPrefix == << "", "imp" >>

\* options.outputPrefix.replace(/^\//, '')
StripLeadingSlash(prefix) ==
  IF prefix # <<>> /\ prefix[1] = "" THEN Tail(prefix) ELSE prefix

\* `${this.outputPrefix}/${entry.path}`
OutputKey(path) == StripLeadingSlash(OutputPrefix) \o << path >>

\* a limiter with one slot too many
ConcurrencyPlusOne == maxParallelFiles + 1

\* PLimit(options.maxParallelFiles ?? DEFAULT_MAX_PARALLEL_FILES)
Concurrency == maxParallelFiles

\* a loop that hands every entry to a writer
NothingDrained(type) == FALSE

\* unzip(): if (entry.type !== 'File') { entry.autodrain(); continue; }
Drained(type) == type # "File"

NewEntry(rec, key) ==
  [rec |-> rec, key |-> key, state |-> "queued", stream |-> <<>>,
   ended |-> FALSE, destroyed |-> FALSE, totalBytes |-> 0, buffer |-> <<>>,
   uploadId |-> NoId, completedParts |-> <<>>, partNumber |-> 1,
   partBody |-> <<>>, final |-> FALSE, caught |-> "", err |-> "",
   waited |-> FALSE, received |-> <<>>]

\* S3UnzipEntry.cancel(): if (this.uploadId)
EntryCancelAborts(uid) == uid # NoId

\* a totalBytes that keeps the last chunk's length only
LastChunkBytes(total, chunk) == Len(chunk)

\* upload(): this.totalBytes += chunk.length
AddBytes(total, chunk) == total + Len(chunk)

\* upload(): this.buffer = Buffer.concat([this.buffer, chunk])
EntryBufferConcat(buf, chunk) == buf \o chunk

\* a writer that sends a part for every chunk it reads
PartOnEveryChunk(buf) == Len(buf) > 0

\* upload(): if (this.buffer.length >= this.maxPartSize)
EntryPartReady(buf) == Len(buf) >= MaxPartSize

\* a writer that sends every remainder with putObject
RemainderByPut(uid) == FALSE

\* upload(): if (this.uploadId) uploadPart() else putObject(), for what is
\* left in the buffer at the end of the entry
RemainderByPart(uid) == uid # NoId

\* S3UnzipEntry.uploadPart(): the buffer is taken and the request sent
EntryUploadPart(e, final) ==
  [e EXCEPT !.partBody = e.buffer, !.buffer = <<>>, !.state = "part",
            !.final = final]

\* uploadPart(): this.partNumber += 1
EntryNextPartNumber(pn) == pn + 1

Running == {"reading", "create", "part", "put", "complete", "abort"}

\* S3Unzip.cancel(): entry.cancel() of every entry, failures swallowed
UnzipCatch(err, es, ss) ==
  LET toAbort == { i \in DOMAIN es : EntryCancelAborts(es[i].uploadId) }
      ids == { es[i].uploadId : i \in toAbort }
  IN  /\ unzipErr' = err
      /\ entries' = es
      /\ sessions' = [id \in DOMAIN ss |->
                        IF id \in ids
                          THEN [ss[id] EXCEPT !.abortIssued = @ + 1]
                          ELSE ss[id]]
      /\ cancelPending' = toAbort
      /\ IF toAbort = {}
           THEN unzipPc' = "rejected" /\ unzipResult' = err
           ELSE unzipPc' = "cancel" /\ unzipResult' = unzipResult

\* await Promise.all(allUploads), looked at when it is reached or when an
\* upload settles: the first rejection rejects it
FirstFailed(es) ==
  CHOOSE i \in DOMAIN es :
    /\ es[i].state = "failed"
    /\ \A j \in DOMAIN es : es[j].state = "failed" => i <= j

AwaitAll(es, ss) ==
  IF \E i \in DOMAIN es : es[i].state = "failed"
    THEN UnzipCatch(es[FirstFailed(es)].err, es, ss)
  ELSE IF \A i \in DOMAIN es : es[i].state = "done"
    THEN /\ unzipPc' = "returned"
         /\ unzipResult' = "ok"
         /\ entries' = es
         /\ sessions' = ss
         /\ UNCHANGED << unzipErr, cancelPending >>
  ELSE /\ unzipPc' = "awaitAll"
       /\ entries' = es
       /\ sessions' = ss
       /\ UNCHANGED << unzipErr, unzipResult, cancelPending >>

\* a limiter that starts nothing when a task settles
NotReleased(es) == es

\* p-limit: the slot of a settled task goes to the head of the queue
Released(es) ==
  IF limitQueue # <<>>
    THEN [es EXCEPT ![Head(limitQueue)].state = "reading"]
    ELSE es

\* an upload promise settles: the limiter moves on, and Promise.all, if
\* unzip() is at it, sees the outcome
WriterSettle(es, ss, i) ==
  /\ limitQueue' = IF limitQueue # <<>> THEN Tail(limitQueue) ELSE limitQueue
  /\ activeCount' = IF limitQueue # <<>> THEN activeCount ELSE activeCount - 1
  /\ IF unzipPc = "awaitAll" /\ es[i].state = "failed"
       THEN UnzipCatch(es[i].err, Released(es), ss)
     ELSE IF unzipPc = "awaitAll"
       THEN AwaitAll(Released(es), ss)
     ELSE /\ entries' = Released(es)
          /\ sessions' = ss
          /\ UNCHANGED << unzipPc, unzipErr, unzipResult, cancelPending >>

\* the limiter task of an entry: upload() returned
WriterDone(es, ss, i) ==
  /\ extractedBytes' = extractedBytes + es[i].totalBytes
  /\ outputKeys' = Append(outputKeys, es[i].key)
  /\ WriterSettle([es EXCEPT ![i].state = "done"], ss, i)

\* upload() threw err after its own cancel()
WriterFailed(es, ss, i, err) ==
  /\ UNCHANGED << extractedBytes, outputKeys >>
  /\ WriterSettle([es EXCEPT ![i].state = "failed", ![i].err = err], ss, i)

\* upload(): catch (err) { await this.cancel(); throw err; }
WriterCatch(es, ss, i, err) ==
  LET es1 == [es EXCEPT ![i].caught = err, ![i].destroyed = TRUE]
  IN  IF EntryCancelAborts(es1[i].uploadId)
        THEN /\ entries' = [es1 EXCEPT ![i].state = "abort"]
             /\ sessions' = IssueAbort(ss, es1[i].uploadId)
             /\ UNCHANGED << extractedBytes, outputKeys, limitQueue,
                             activeCount, unzipPc, unzipErr, unzipResult,
                             cancelPending >>
        ELSE WriterFailed(es1, ss, i, err)

UnzipStart ==
  /\ unzipPc = "idle"
  /\ tasks.import.status = "Running"
  /\ unzipPc' = "fetch"
  /\ UNCHANGED << unzipErr, unzipResult, cancelPending, entries, outputKeys,
                  extractedBytes, limitQueue, activeCount, parserPc, ppos,
                  pfed, objects >>
  /\ UNCHANGED << zipVars, storeVars >>

\* fetchZip(): the GetObject of inputKey answered
UnzipFetchResp ==
  /\ unzipPc = "fetch"
  /\ \/ /\ NoFault
        /\ unzipPc' = "iterate"
        /\ parserPc' = "next"
        /\ ppos' = 1
        /\ UNCHANGED << unzipErr, unzipResult, cancelPending, entries,
                        sessions >>
     \/ /\ Fault("SourceReadError")
        /\ UnzipCatch("SourceReadError", entries, sessions)
        /\ UNCHANGED << parserPc, ppos >>
     \/ /\ Fault("NoBody")
        /\ UnzipCatch("NoStreamError", entries, sessions)
        /\ UNCHANGED << parserPc, ppos >>
  /\ UNCHANGED << outputKeys, extractedBytes, limitQueue, activeCount, pfed,
                  objects, zipObject, abortFailed >>
  /\ UNCHANGED zipVars

\* ------------------------------------------------------------ unzipper.Parse
Decoded == Decode(zipObject)

\* for await (const entry of parser): the parser yields the entry at ppos and
\* the loop body runs; a directory is drained
ParserEntry ==
  /\ unzipPc = "iterate"
  /\ parserPc = "next"
  /\ ppos <= Len(Decoded.entries)
  /\ LET rec == Decoded.entries[ppos]
     IN  IF Drained(rec.type)
           THEN /\ IF rec.complete
                     THEN /\ ppos' = ppos + 1
                          /\ UNCHANGED << parserPc, unzipPc, unzipErr,
                                          unzipResult, cancelPending,
                                          entries, sessions >>
                     ELSE /\ parserPc' = "error"
                          /\ UnzipCatch("CorruptArchive", entries, sessions)
                          /\ UNCHANGED ppos
                /\ UNCHANGED << limitQueue, activeCount, pfed >>
           ELSE /\ IF activeCount < Concurrency
                     THEN /\ entries' = Append(entries,
                               [NewEntry(ppos, OutputKey(rec.path))
                                  EXCEPT !.state = "reading"])
                          /\ activeCount' = activeCount + 1
                          /\ UNCHANGED limitQueue
                     ELSE /\ entries' = Append(entries,
                               [NewEntry(ppos, OutputKey(rec.path))
                                  EXCEPT !.waited = TRUE])
                          /\ limitQueue' =
                               Append(limitQueue, Len(entries) + 1)
                          /\ UNCHANGED activeCount
                /\ parserPc' = "feed"
                /\ pfed' = 0
                /\ UNCHANGED << ppos, unzipPc, unzipErr, unzipResult,
                                cancelPending, sessions >>
  /\ NoFault
  /\ UNCHANGED << outputKeys, extractedBytes, objects, zipObject,
                  abortFailed >>
  /\ UNCHANGED zipVars

\* the parser inflates one chunk into the entry it yielded last
ParserFeed ==
  /\ parserPc = "feed"
  /\ LET i == Len(entries)
         data == Decoded.entries[ppos].data
     IN  /\ ~entries[i].destroyed
         /\ SumLen(entries[i].stream) < HighWaterMark
         /\ \E n \in 1..Min(MaxChunk, Len(data) - pfed) :
              /\ entries' = [entries EXCEPT ![i].stream =
                   Append(@, SubSeq(data, pfed + 1, pfed + n))]
              /\ pfed' = pfed + n
  /\ UNCHANGED << unzipPc, unzipErr, unzipResult, cancelPending, outputKeys,
                  extractedBytes, limitQueue, activeCount, parserPc, ppos,
                  objects >>
  /\ UNCHANGED << zipVars, storeVars >>

\* the entry's data is through: its stream ends and the parser reads on; a
\* stream that broke off inside the entry fails the parser instead
ParserEntryEnd ==
  /\ parserPc = "feed"
  /\ pfed = Len(Decoded.entries[ppos].data)
  /\ ~entries[Len(entries)].destroyed
  /\ IF Decoded.entries[ppos].complete
       THEN /\ entries' = [entries EXCEPT ![Len(entries)].ended = TRUE]
            /\ ppos' = ppos + 1
            /\ parserPc' = "next"
            /\ UNCHANGED << unzipPc, unzipErr, unzipResult, cancelPending,
                            sessions >>
       ELSE /\ parserPc' = "error"
            /\ IF unzipPc = "iterate"
                 THEN UnzipCatch("CorruptArchive", entries, sessions)
                 ELSE UNCHANGED << unzipPc, unzipErr, unzipResult,
                                   cancelPending, entries, sessions >>
            /\ UNCHANGED ppos
  /\ NoFault
  /\ UNCHANGED << outputKeys, extractedBytes, limitQueue, activeCount, pfed,
                  objects, zipObject, abortFailed >>
  /\ UNCHANGED zipVars

\* the parser is past the last record: the loop ends and Promise.all is
\* awaited, or the stream holds no valid end and the parser fails
ParserEnd ==
  /\ unzipPc = "iterate"
  /\ parserPc = "next"
  /\ ppos > Len(Decoded.entries)
  /\ IF Decoded.ok
       THEN /\ parserPc' = "ended"
            /\ AwaitAll(entries, sessions)
       ELSE /\ parserPc' = "error"
            /\ UnzipCatch("CorruptArchive", entries, sessions)
  /\ NoFault
  /\ UNCHANGED << outputKeys, extractedBytes, limitQueue, activeCount, ppos,
                  pfed, objects, zipObject, abortFailed >>
  /\ UNCHANGED zipVars

\* the body stream of the archive fails: zipStream.pipe(parser) forwards no
\* error, the parser gets no more input and no end
ArchiveStreamError ==
  /\ parserPc \in {"next", "feed"}
  /\ Fault("ArchiveStreamError")
  /\ parserPc' = "stalled"
  /\ UNCHANGED << unzipPc, unzipErr, unzipResult, cancelPending, entries,
                  outputKeys, extractedBytes, limitQueue, activeCount, ppos,
                  pfed, objects >>
  /\ UNCHANGED << zipVars, sessions, zipObject, abortFailed >>

\* S3Unzip.cancel(): one of the awaited aborts answered
UnzipCancelResp ==
  /\ unzipPc = "cancel"
  /\ \E i \in cancelPending :
       /\ \/ /\ NoFault
             /\ sessions' = AbortOk(sessions, entries[i].uploadId)
             /\ UNCHANGED abortFailed
          \/ /\ AbortFails(entries[i].uploadId)
             /\ abortFailed' = TRUE
             /\ UNCHANGED sessions
       /\ cancelPending' = cancelPending \ {i}
       /\ IF cancelPending \ {i} = {}
            THEN unzipPc' = "rejected" /\ unzipResult' = unzipErr
            ELSE UNCHANGED << unzipPc, unzipResult >>
  /\ UNCHANGED << unzipErr, entries, outputKeys, extractedBytes, limitQueue,
                  activeCount, parserPc, ppos, pfed, objects, zipObject >>
  /\ UNCHANGED zipVars

\* ------------------------------------------------------------ S3UnzipEntry
writerFrame == << parserPc, ppos, pfed, zipObject >>

quietFrame ==
  << unzipPc, unzipErr, unzipResult, cancelPending, outputKeys,
     extractedBytes, limitQueue, activeCount >>

\* for await (const chunk of this.entry): one chunk
WriterRead(i) ==
  /\ entries[i].state = "reading"
  /\ entries[i].stream # <<>>
  /\ LET e == entries[i]
         chunk == Head(e.stream)
         e1 == [e EXCEPT !.stream = Tail(@),
                         !.received = @ \o chunk,
                         !.totalBytes = AddBytes(@, chunk),
                         !.buffer = EntryBufferConcat(@, chunk)]
     IN  entries' = [entries EXCEPT ![i] =
           IF EntryPartReady(e1.buffer)
             THEN IF e1.uploadId = NoId
                    THEN [e1 EXCEPT !.state = "create"]
                    ELSE EntryUploadPart(e1, FALSE)
             ELSE e1]
  /\ UNCHANGED << quietFrame, writerFrame, objects, sessions, faults,
                  faultLog, abortFailed >>
  /\ UNCHANGED zipVars

\* the entry's stream ended: the remainder, then the completion
WriterEnd(i) ==
  /\ entries[i].state = "reading"
  /\ entries[i].stream = <<>>
  /\ entries[i].ended
  /\ LET e == entries[i]
     IN  IF Len(e.buffer) > 0
           THEN /\ entries' = [entries EXCEPT ![i] =
                     IF RemainderByPart(e.uploadId)
                       THEN EntryUploadPart(e, TRUE)
                       ELSE [e EXCEPT !.state = "put"]]
                /\ UNCHANGED << quietFrame, sessions >>
         ELSE IF e.uploadId # NoId
           THEN /\ entries' = [entries EXCEPT ![i].state = "complete"]
                /\ sessions' =
                     IssueComplete(sessions, e.uploadId, e.completedParts)
                /\ UNCHANGED quietFrame
         ELSE WriterDone(entries, sessions, i)
  /\ NoFault
  /\ UNCHANGED << writerFrame, objects, abortFailed >>
  /\ UNCHANGED zipVars

\* createMultipartUpload() answered; uploadPart() follows
WriterCreateResp(i) ==
  /\ entries[i].state = "create"
  /\ \/ /\ NoFault
        /\ sessions' = Append(sessions, NewSession(i))
        /\ entries' = [entries EXCEPT ![i] =
             EntryUploadPart([@ EXCEPT !.uploadId = Len(sessions) + 1], FALSE)]
        /\ UNCHANGED quietFrame
     \/ /\ Fault("CreateUploadError")
        /\ WriterCatch(entries, sessions, i, "CreateUploadError")
  /\ UNCHANGED << writerFrame, objects, abortFailed >>
  /\ UNCHANGED zipVars

\* uploadPart(): the UploadPart request answered
WriterPartResp(i) ==
  /\ entries[i].state = "part"
  /\ LET e == entries[i]
     IN  \/ /\ sessions[e.uploadId].status = "open"
            /\ NoFault
            /\ LET ss == [sessions EXCEPT ![e.uploadId].parts = Append(@,
                            [PartNumber |-> e.partNumber, Body |-> e.partBody])]
                   e1 == [e EXCEPT
                            !.completedParts = Append(@,
                               [PartNumber |-> e.partNumber,
                                ETag |-> e.partBody]),
                            !.partNumber = EntryNextPartNumber(@)]
               IN  IF e.final
                     THEN /\ entries' = [entries EXCEPT ![i] =
                               [e1 EXCEPT !.state = "complete"]]
                          /\ sessions' = IssueComplete(ss, e.uploadId,
                                                       e1.completedParts)
                     ELSE /\ entries' = [entries EXCEPT ![i] =
                               [e1 EXCEPT !.state = "reading"]]
                          /\ sessions' = ss
            /\ UNCHANGED quietFrame
         \/ /\ \/ sessions[e.uploadId].status # "open" /\ NoFault
               \/ Fault("UploadPartError")
            /\ WriterCatch(entries, sessions, i, "UploadPartError")
  /\ UNCHANGED << writerFrame, objects, abortFailed >>
  /\ UNCHANGED zipVars

\* putObject() answered
WriterPutResp(i) ==
  /\ entries[i].state = "put"
  /\ \/ /\ NoFault
        /\ objects' = Append(objects,
             [key |-> entries[i].key, body |-> entries[i].buffer])
        /\ WriterDone(entries, sessions, i)
     \/ /\ Fault("PutObjectError")
        /\ WriterCatch(entries, sessions, i, "PutObjectError")
        /\ UNCHANGED objects
  /\ UNCHANGED << writerFrame, abortFailed >>
  /\ UNCHANGED zipVars

\* completeMultipartUpload() answered
WriterCompleteResp(i) ==
  /\ entries[i].state = "complete"
  /\ LET e == entries[i]
     IN  \/ /\ CompleteAccepted(sessions[e.uploadId], e.completedParts)
            /\ NoFault
            /\ objects' = Append(objects,
                 [key |-> e.key,
                  body |-> Assemble(sessions[e.uploadId], e.completedParts)])
            /\ WriterDone(entries,
                 [sessions EXCEPT ![e.uploadId].status = "completed"], i)
         \/ /\ \/ ~CompleteAccepted(sessions[e.uploadId], e.completedParts)
                  /\ NoFault
               \/ Fault("CompleteUploadError")
            /\ WriterCatch(entries, sessions, i, "CompleteUploadError")
            /\ UNCHANGED objects
  /\ UNCHANGED << writerFrame, abortFailed >>
  /\ UNCHANGED zipVars

\* the abort of upload()'s own cancel() answered; upload() throws
WriterAbortResp(i) ==
  /\ entries[i].state = "abort"
  /\ \/ /\ NoFault
        /\ WriterFailed(entries, AbortOk(sessions, entries[i].uploadId), i,
                        entries[i].caught)
        /\ UNCHANGED abortFailed
     \/ /\ AbortFails(entries[i].uploadId)
        /\ abortFailed' = TRUE
        /\ WriterFailed(entries, sessions, i, "AbortError")
  /\ UNCHANGED << writerFrame, objects >>
  /\ UNCHANGED zipVars


\* ------------------------------------------------------------ specification
RECURSIVE InjSeqs(_, _)
InjSeqs(S, n) ==
  IF n = 0 THEN { <<>> }
  ELSE LET shorter == InjSeqs(S, n - 1)
       IN  shorter \cup
           { Append(q, x) : q \in { r \in shorter : Len(r) = n - 1 },
                            x \in S } 

InputLists ==
  { q \in InjSeqs(DOMAIN Bucket, MaxKeys) :
      \A i, j \in DOMAIN q : i # j => q[i] # q[j] }

\* The archives unzip() is run on directly: whole ones, with a directory
\* entry, with files of several parts and with one long file, and ones that
\* break off.
ArchiveEntries ==
  { << [path |-> "dir", type |-> "Directory", data |-> <<>>],
       [path |-> "e", type |-> "File", data |-> << 51 >>] >>,
    << [path |-> "c", type |-> "File", data |-> << 41, 42, 43, 44 >>],
       [path |-> "f", type |-> "File", data |-> << 61, 62 >>] >>,
    << [path |-> "g", type |-> "File",
        data |-> << 71, 72, 73, 74, 75, 76, 77, 78, 79, 80 >>] >> }

Archives ==
  LET whole == { EncodeEntries(es) : es \in ArchiveEntries }
  IN  whole \cup
      { SubSeq(a, 1, Len(a) - k) : a \in whole, k \in {1, 3} }

\* a row of the tasks table and what is known of its jobs: the execute_task
\* jobs not handled yet, the handlers that are past the status check and
\* have not called export() / import() yet, and the bodies started
NewTask(status, jobs) ==
  [status |-> status, logs |-> <<>>, outcome |-> "", jobs |-> jobs,
   passed |-> 0, started |-> 0]

InitUnzipFields ==
  /\ unzipPc = "idle"
  /\ unzipErr = ""
  /\ unzipResult = ""
  /\ cancelPending = {}
  /\ entries = <<>>
  /\ outputKeys = <<>>
  /\ extractedBytes = 0
  /\ limitQueue = <<>>
  /\ activeCount = 0
  /\ parserPc = "idle"
  /\ ppos = 0
  /\ pfed = 0
  /\ objects = <<>>

\* The tables of a workspace: rows in key order, reactions with or without
\* deleted_at, uploads with or without uploaded_at, of the smallest size or
\* of one that fills a batch.
ReactionTables ==
  UNION { { [k \in 1..n |-> [key |-> k, deleted |-> f[k]]] :
              f \in [1..n -> BOOLEAN] } : n \in 0..MaxRows }

UploadTables ==
  UNION { { [k \in 1..n |-> [key |-> k, path |-> k, uploaded |-> f[k][1],
                             size |-> f[k][2]]] :
              f \in [1..n -> BOOLEAN \X {1, FILE_BATCH_SIZE_LIMIT}] } :
          n \in 0..MaxRows }

\* The exports that are run: one of the file list, the reactions, the
\* uploads and the number of jobs of the two tasks is varied at a time.
Workspaces ==
  LET all == [inputKeys : InputLists, reactions : ReactionTables,
              uploads : UploadTables, jobs : (1..MaxJobs) \X (1..MaxJobs)]
      Plain(w) == { f \in DOMAIN w :
                      w[f] = [inputKeys |-> <<>>, reactions |-> <<>>,
                              uploads |-> <<>>, jobs |-> << 1, 1 >>][f] }
  IN  { w \in all : Cardinality(Plain(w)) >= 3 }

InitExportFields ==
  /\ lastRevision = NoCursor
  /\ queries = 0
  /\ nodeReactions = 0
  /\ lastFileId = NoCursor
  /\ fileKeys = <<>>
  /\ filesSize = 0
  /\ uploadFileKeys = <<>>
  /\ pushed = <<>>
  /\ zipped = <<>>
  /\ zui = 0

InitZip ==
  /\ \E w \in Workspaces :
       /\ inputKeys = w.inputKeys
       /\ reactions = w.reactions
       /\ uploads = w.uploads
       /\ tasks = [export |-> NewTask("Pending", w.jobs[1]),
                   import |-> NewTask("Pending", w.jobs[2])]
  /\ maxParallelFiles \in 1..MaxParallel
  /\ zipPc = "idle"
  /\ zi = 0
  /\ zipErr = ""
  /\ zipResult = ""
  /\ uploadId = NoId
  /\ partNumber = 1
  /\ completedParts = <<>>
  /\ zipFileSize = 0
  /\ filePromises = {}
  /\ promises = [i \in DOMAIN inputKeys |-> [state |-> "none", err |-> ""]]
  /\ zipActive = 0
  /\ uploadPc = "idle"
  /\ buffer = <<>>
  /\ zipPartNo = 0
  /\ uploadFinal = FALSE
  /\ uploadErr = ""
  /\ aqueue = <<>>
  /\ acur = 0
  /\ aread = 0
  /\ afinalize = FALSE
  /\ aended = FALSE
  /\ pipe = <<>>
  /\ cancelPc = "idle"
  /\ cancelErr = ""
  /\ sessions = <<>>
  /\ zipObject = NoObject
  /\ faults = 0
  /\ faultLog = <<>>
  /\ abortFailed = FALSE
  /\ reads = {}
  /\ signalled = {}
  /\ received = <<>>
  /\ artifacts = <<>>
  /\ exportPc = "idle"
  /\ InitExportFields
  /\ InitUnzipFields

\* unzip() alone, on an archive that is already in the bucket
InitUnzip ==
  /\ inputKeys = <<>>
  /\ maxParallelFiles \in 1..MaxParallel
  /\ zipPc = "off"
  /\ zi = 0
  /\ zipErr = ""
  /\ zipResult = ""
  /\ uploadId = NoId
  /\ partNumber = 1
  /\ completedParts = <<>>
  /\ zipFileSize = 0
  /\ filePromises = {}
  /\ promises = <<>>
  /\ zipActive = 0
  /\ uploadPc = "idle"
  /\ buffer = <<>>
  /\ zipPartNo = 0
  /\ uploadFinal = FALSE
  /\ uploadErr = ""
  /\ aqueue = <<>>
  /\ acur = 0
  /\ aread = 0
  /\ afinalize = FALSE
  /\ aended = FALSE
  /\ pipe = <<>>
  /\ cancelPc = "idle"
  /\ cancelErr = ""
  /\ sessions = <<>>
  /\ zipObject \in Archives
  /\ faults = 0
  /\ faultLog = <<>>
  /\ abortFailed = FALSE
  /\ reads = {}
  /\ signalled = {}
  /\ received = <<>>
  /\ artifacts = <<>>
  /\ tasks = [export |-> NewTask("None", 0), import |-> NewTask("Pending", 1)]
  /\ exportPc = "off"
  /\ reactions = <<>>
  /\ uploads = <<>>
  /\ InitExportFields
  /\ InitUnzipFields

Init == InitZip \/ InitUnzip

Next ==
  \/ ZipStart
  \/ ZipCreateResp
  \/ ZipGetResp
  \/ ZipFileSettled
  \/ ZipFinalized
  \/ ZipUploadAwaited
  \/ ZipCompleteResp
  \/ ZipCancelResp
  \/ UploadRead
  \/ UploadEnd
  \/ UploadPartResp
  \/ EncStart
  \/ EncData
  \/ EncEntryDone
  \/ EncError
  \/ EncFinalize
  \/ CancelResp
  \/ \E t \in {"export", "import"} : ExecuteTask(t)
  \/ ExportStart
  \/ ExportNodeReactionsPage
  \/ ExportUploadsPage
  \/ ExportSaveArtifact
  \/ ZipUploadFiles
  \/ ExportSettle
  \/ ImportStart
  \/ ImportSettle
  \/ UnzipStart
  \/ UnzipFetchResp
  \/ ParserEntry
  \/ ParserFeed
  \/ ParserEntryEnd
  \/ ParserEnd
  \/ ArchiveStreamError
  \/ UnzipCancelResp
  \/ \E i \in DOMAIN entries : WriterRead(i)
  \/ \E i \in DOMAIN entries : WriterEnd(i)
  \/ \E i \in DOMAIN entries : WriterCreateResp(i)
  \/ \E i \in DOMAIN entries : WriterPartResp(i)
  \/ \E i \in DOMAIN entries : WriterPutResp(i)
  \/ \E i \in DOMAIN entries : WriterCompleteResp(i)
  \/ \E i \in DOMAIN entries : WriterAbortResp(i)

Spec == Init /\ [][Next]_vars

\* A request that was sent is answered, and a callback that can run is run
\* by the event loop: every step but the two that only inject a failure of
\* a stream (EncError, ArchiveStreamError) is weakly fair.
WriterFairness(i) ==
  /\ WF_vars(i \in DOMAIN entries /\ WriterRead(i))
  /\ WF_vars(i \in DOMAIN entries /\ WriterEnd(i))
  /\ WF_vars(i \in DOMAIN entries /\ WriterCreateResp(i))
  /\ WF_vars(i \in DOMAIN entries /\ WriterPartResp(i))
  /\ WF_vars(i \in DOMAIN entries /\ WriterPutResp(i))
  /\ WF_vars(i \in DOMAIN entries /\ WriterCompleteResp(i))
  /\ WF_vars(i \in DOMAIN entries /\ WriterAbortResp(i))

Fairness ==
  /\ WF_vars(ZipStart) /\ WF_vars(ZipCreateResp) /\ WF_vars(ZipGetResp)
  /\ WF_vars(ZipFileSettled) /\ WF_vars(ZipFinalized)
  /\ WF_vars(ZipUploadAwaited) /\ WF_vars(ZipCompleteResp)
  /\ WF_vars(ZipCancelResp) /\ WF_vars(UploadRead) /\ WF_vars(UploadEnd)
  /\ WF_vars(UploadPartResp) /\ WF_vars(EncStart) /\ WF_vars(EncData)
  /\ WF_vars(EncEntryDone) /\ WF_vars(EncFinalize) /\ WF_vars(CancelResp)
  /\ WF_vars(ExportSaveArtifact) /\ WF_vars(UnzipStart)
  /\ WF_vars(ExecuteTask("export")) /\ WF_vars(ExecuteTask("import"))
  /\ WF_vars(ExportStart) /\ WF_vars(ExportSettle)
  /\ WF_vars(ExportNodeReactionsPage) /\ WF_vars(ExportUploadsPage)
  /\ WF_vars(ZipUploadFiles)
  /\ WF_vars(ImportStart) /\ WF_vars(ImportSettle)
  /\ WF_vars(UnzipFetchResp) /\ WF_vars(ParserEntry) /\ WF_vars(ParserFeed)
  /\ WF_vars(ParserEntryEnd) /\ WF_vars(ParserEnd)
  /\ WF_vars(UnzipCancelResp)
  /\ \A i \in 1..MaxKeys : WriterFairness(i)

FairSpec == Spec /\ Fairness

\* the limiter's own progress needs nothing of the zip side or the parser:
\* only the writers' callbacks are assumed to run
WriterFairSpec == Spec /\ \A i \in 1..MaxKeys : WriterFairness(i)

\* zip() alone: its answered requests, the encoder and uploadParts() run
ZipFairness ==
  /\ WF_vars(ExecuteTask("export")) /\ WF_vars(ExportStart)
  /\ WF_vars(ExportNodeReactionsPage) /\ WF_vars(ExportUploadsPage)
  /\ WF_vars(ZipStart) /\ WF_vars(ZipCreateResp) /\ WF_vars(ZipGetResp)
  /\ WF_vars(ZipFileSettled) /\ WF_vars(ZipFinalized)
  /\ WF_vars(ZipUploadAwaited) /\ WF_vars(ZipCompleteResp)
  /\ WF_vars(ZipCancelResp) /\ WF_vars(UploadRead) /\ WF_vars(UploadEnd)
  /\ WF_vars(UploadPartResp) /\ WF_vars(EncStart) /\ WF_vars(EncData)
  /\ WF_vars(EncEntryDone) /\ WF_vars(EncFinalize) /\ WF_vars(CancelResp)

ZipFairSpec == Spec /\ ZipFairness

\* ------------------------------------------------------------ properties
PartNumbers(parts) == [k \in DOMAIN parts |-> parts[k].PartNumber]

Handled(s) == s.completeIssued > 0 \/ s.abortIssued > 0

ZipSessions == { id \in DOMAIN sessions : sessions[id].owner = 0 }

WriterSessions == { id \in DOMAIN sessions : sessions[id].owner # 0 }

ZipSettled == zipPc \in {"returned", "rejected"}

UnzipSettled == unzipPc \in {"returned", "rejected"}

\* C1: for every session that zip() or an S3UnzipEntry completes, the Parts
\* passed to completeMultipartUpload carry the part numbers 1..N in ascending
\* order, N being the number of successful uploadPart calls of the session.
C1_PartNumbersAscending ==
  \A id \in DOMAIN sessions :
    sessions[id].completeIssued > 0 =>
      PartNumbers(sessions[id].completeArg) =
        [k \in 1..Len(sessions[id].parts) |-> k]

\* a zip session and a writer session, both completed with several parts
C1_Witness ==
  /\ \E id \in ZipSessions :
       sessions[id].status = "completed" /\ Len(sessions[id].completeArg) > 1
  /\ \E id \in WriterSessions :
       sessions[id].status = "completed" /\ Len(sessions[id].completeArg) > 1

\* C2: every session created by zip() has received completeMultipartUpload
\* or abortMultipartUpload by the time zip() returns or rejects; a zip() that
\* returns has completed its session.
C2_ZipSessionHandled ==
  /\ ZipSettled => \A id \in ZipSessions : Handled(sessions[id])
  /\ zipPc = "returned" =>
       \A id \in ZipSessions : sessions[id].status = "completed"

\* zip() rejected on a failed complete call, its session aborted
C2_Witness ==
  /\ zipPc = "rejected"
  /\ zipErr = "CompleteUploadError"
  /\ uploadId # NoId
  /\ sessions[uploadId].completeIssued > 0
  /\ sessions[uploadId].status = "aborted"

\* C3: at the step in which unzip() returns or rejects, every session
\* created by a writer of the call has received completeMultipartUpload or
\* abortMultipartUpload, sessions of sibling entries included.
C3_WriterSessionsHandled ==
  [][ (UnzipSettled' /\ ~UnzipSettled) =>
        \A id \in DOMAIN sessions' :
          sessions'[id].owner # 0 => Handled(sessions'[id]) ]_vars

\* the injected failures, the silent skip of a source without a body left out
Failures == SelectSeq(faultLog, LAMBDA kind : kind # "NoBody")

\* C4: when a source read fails during zip(), or the archive stream or the
\* decoder fails during unzip(), and every cleanup abort succeeds, zip() /
\* unzip() rejects, and rejects with that error: once nothing is left to
\* run, the call whose input failed has rejected with the originating error.
C4_RejectsWithOrigin ==
  /\ ( /\ zipPc = "rejected"
       /\ ~abortFailed
       /\ Failures # <<>>
       /\ Failures[1] = "SourceReadError" )
       => zipResult = "SourceReadError"
  /\ ( /\ unzipPc = "rejected"
       /\ ~abortFailed
       /\ faultLog = <<>>
       /\ ~Decoded.ok )
       => unzipResult = "CorruptArchive"
  /\ ( /\ "ArchiveStreamError" \in Range(faultLog)
       /\ ~abortFailed
       /\ ~ENABLED Next )
       => unzipPc = "rejected" /\ unzipResult = "ArchiveStreamError"

\* C5: a failed cleanup abort is never re-raised: zip() and unzip() reject
\* with the error that triggered the cleanup, never with the abort's error.
C5_AbortFailureNotRaised ==
  /\ zipPc = "rejected" => zipResult = zipErr /\ zipResult # "AbortError"
  /\ unzipPc = "rejected" => unzipResult # "AbortError"
  /\ \A i \in DOMAIN entries :
       entries[i].state = "failed" => entries[i].err = entries[i].caught

RECURSIVE Sum(_)
Sum(ns) == IF ns = <<>> THEN 0 ELSE Head(ns) + Sum(Tail(ns))

\* the bytes of the parts a session is completed with
CompletedBytes(s) ==
  Sum([k \in DOMAIN s.completeArg |->
         Len(PartBody(s, s.completeArg[k].PartNumber))])

\* everything the encoder emits for the sources that were appended to it
EncoderOutput ==
  LET idxs == SelectSeq([k \in DOMAIN inputKeys |-> k],
                        LAMBDA k : k \in reads)
  IN  EncodeEntries([k \in DOMAIN idxs |->
        [path |-> fileName(inputKeys[idxs[k]]), type |-> "File",
         data |-> Bucket[inputKeys[idxs[k]]].body]])

\* C6: when zip() returns, zipFileSize is the sum of the lengths of the part
\* bodies of the completed session, the number of bytes stored under the
\* output key; completeMultipartUpload is issued only after every byte the
\* encoder emitted has been uploaded in some part.
C6_ZipFileSize ==
  /\ zipPc = "returned" =>
       /\ zipFileSize = CompletedBytes(sessions[uploadId])
       /\ zipFileSize = Len(zipObject)
  /\ \A id \in ZipSessions :
       sessions[id].completeIssued > 0 =>
         /\ aended /\ pipe = <<>> /\ buffer = <<>>
         /\ Assemble(sessions[id], sessions[id].completeArg) = EncoderOutput

\* zip() returned an archive of two sources whose last part is a remainder
C6_Witness ==
  /\ zipPc = "returned"
  /\ Len(inputKeys) = 2
  /\ Len(completedParts) > 2
  /\ Len(completedParts[Len(completedParts)].ETag) < MaxPartSize

\* the decoded length of the File entries of the archive
FileBytes ==
  Sum([k \in DOMAIN Decoded.entries |->
         IF Decoded.entries[k].type = "File"
           THEN Len(Decoded.entries[k].data) ELSE 0])

\* the bytes a writer sent in uploadPart and putObject bodies
SentBytes(e) ==
  IF e.uploadId # NoId
    THEN Sum([k \in DOMAIN sessions[e.uploadId].parts |->
                Len(sessions[e.uploadId].parts[k].Body)])
    ELSE IF e.state = "done" THEN Len(e.buffer) ELSE 0

\* C7: when unzip() returns, extractedBytes is the sum of the decoded lengths
\* of the File entries and the number of bytes sent in putObject and
\* uploadPart bodies by the writers, in whatever order they finish.
C7_ExtractedBytes ==
  unzipPc = "returned" =>
    /\ extractedBytes = FileBytes
    /\ extractedBytes = Sum([i \in DOMAIN entries |-> SentBytes(entries[i])])

\* unzip() returned after the second writer finished before the first
C7_Witness ==
  /\ unzipPc = "returned"
  /\ Len(entries) = 2
  /\ outputKeys = << entries[2].key, entries[1].key >>
  /\ extractedBytes > MaxPartSize
  /\ entries[1].uploadId # NoId

\* C8: during zip() the sources whose read was opened and whose entry the
\* encoder has not signalled complete never number more than
\* maxParallelFiles.
C8_ZipReadsBounded ==
  Cardinality(reads \ signalled) <= maxParallelFiles

\* the second source is open, unsignalled, under a limit of one
C8_Witness ==
  /\ maxParallelFiles = 1
  /\ Len(inputKeys) = 2
  /\ zipPc = "wait"
  /\ reads \ signalled = {2}

RunningWriters == { i \in DOMAIN entries : entries[i].state \in Running }

\* C9: during unzip() the writers whose upload() has started and not settled
\* never number more than maxParallelFiles, and a queued writer gets a slot
\* only in the step in which a running writer settles, its abort included.
C9_WritersBounded ==
  /\ [](Cardinality(RunningWriters) <= maxParallelFiles)
  /\ [][ \A i \in DOMAIN entries :
           (entries[i].state = "queued" /\ entries'[i].state # "queued") =>
             \E j \in RunningWriters :
               entries'[j].state \in {"done", "failed"} ]_vars

\* a writer that waited in the queue runs after the holder of the only slot
\* failed and aborted its session
C9_Witness ==
  /\ maxParallelFiles = 1
  /\ Len(entries) = 2
  /\ entries[1].state = "failed"
  /\ entries[1].uploadId # NoId
  /\ sessions[entries[1].uploadId].abortIssued > 0
  /\ entries[2].waited
  /\ entries[2].state \in Running

\* the object stored under a key: the last write
Stored(key) ==
  LET hits == { k \in DOMAIN objects : objects[k].key = key }
  IN  objects[CHOOSE k \in hits : \A j \in hits : j <= k].body

\* C10: for a non-empty inputKeys list of existing sources, zip() then
\* unzip() round-trips: the extracted paths are the basenames of inputKeys
\* and each extracted object holds the bytes of its source.
C10_RoundTrip ==
  ( /\ zipPc = "returned"
    /\ unzipPc = "returned"
    /\ inputKeys # <<>>
    /\ faultLog = <<>> )
    => /\ { objects[k].key : k \in DOMAIN objects } =
            { OutputKey(fileName(inputKeys[i])) : i \in DOMAIN inputKeys }
       /\ \A i \in DOMAIN inputKeys :
            Stored(OutputKey(fileName(inputKeys[i]))) =
              Bucket[inputKeys[i]].body

\* C11: for every completed session, the part bodies concatenated in
\* part-number order are exactly the bytes the sink received, in the order
\* received: the encoder's output read by uploadParts() in zip, the decoded
\* bytes of the entry read by upload() in unzip.
C11_PartsCarryStream ==
  \A id \in DOMAIN sessions :
    sessions[id].status = "completed" =>
      LET s == sessions[id]
          bytes == Assemble(s, s.completeArg)
      IN  /\ Len(s.completeArg) = Len(s.parts)
          /\ IF s.owner = 0
               THEN bytes = received
               ELSE /\ bytes = entries[s.owner].received
                    /\ bytes = Decoded.entries[entries[s.owner].rec].data

\* a writer session completed with a first part longer than maxPartSize
\* (the chunks did not line up with the part size) and a remainder
C11_Witness ==
  \E id \in WriterSessions :
    /\ sessions[id].status = "completed"
    /\ Len(sessions[id].completeArg) > 1
    /\ Len(sessions[id].parts[1].Body) > MaxPartSize

\* C12: once a component of the job has failed, no new limiter-gated work
\* is admitted: zip() sends no further GetObject for a source, and unzip()
\* starts no further writer, neither one queued in the limiter nor one for
\* an entry decoded afterwards.
C12_NoNewWorkAfterFailure ==
  [][ /\ (zipPc' = "get" /\ (zipPc # "get" \/ zi' # zi)) =>
           /\ uploadPc # "failed"
           /\ cancelPc = "idle"
           /\ zipErr = ""
      /\ \A i \in DOMAIN entries' :
           ( /\ entries'[i].state = "reading"
             /\ (i \notin DOMAIN entries \/ entries[i].state = "queued") )
           => /\ unzipErr = ""
              /\ \A j \in DOMAIN entries' : entries'[j].state # "failed"
    ]_vars

\* the entry completion futures of filePromises that are still pending
PendingFiles == { p \in filePromises : promises[p.idx].state = "pending" }

\* C13: when a cancellation of zip() has run, from zip()'s catch or from an
\* 'error' event, whether its abort succeeded or not, no entry completion
\* future is left pending, and those it rejected carry the triggering error.
C13_CancelRejectsPending ==
  /\ cancelPc \in {"done", "failed"} =>
       /\ PendingFiles = {}
       /\ \A p \in filePromises :
            promises[p.idx].state = "rejected" =>
              promises[p.idx].err = cancelErr
  /\ zipPc = "rejected" => PendingFiles = {}

\* the paths of the entries of the archive zip() stored
ArchivePaths ==
  LET es == Decode(zipObject).entries
  IN  [k \in DOMAIN es |-> es[k].path]

\* C14: zip() never silently skips a file: when zip() returns, the archive
\* holds one entry per key of inputKeys, in order, under its basename.
C14_NoSilentSkip ==
  zipPc = "returned" =>
    ArchivePaths = [i \in DOMAIN inputKeys |-> fileName(inputKeys[i])]

\* C15: if zip() rejects, completeMultipartUpload has not succeeded, no
\* object is visible under the output key and the export saved no artifact
\* for it; an artifact row exists only after zip() returned.
C15_NoArtifactOnFailure ==
  /\ zipPc = "rejected" =>
       /\ zipObject = NoObject
       /\ \A id \in ZipSessions : sessions[id].status # "completed"
       /\ artifacts = <<>>
  /\ artifacts # <<>> =>
       /\ zipPc = "returned"
       /\ zipObject # NoObject
       /\ artifacts[1].size = Len(zipObject)

\* zip() rejected after its complete call failed: nothing stored, no artifact
C15_Witness ==
  /\ zipPc = "rejected"
  /\ \E id \in ZipSessions : sessions[id].completeIssued > 0
  /\ zipFileSize > 0
  /\ artifacts = <<>>

\* C16: every key of the outputKeys unzip() returns names an object that the
\* call wrote (a successful putObject or a completed session), and every
\* object the call wrote is in outputKeys, for entries of every size.
C16_OutputKeysWritten ==
  unzipPc = "returned" =>
    Range(outputKeys) = { objects[k].key : k \in DOMAIN objects }

\* C17: an entry of exactly k x maxPartSize bytes is completed with exactly
\* k parts, however the decoder splits its bytes into chunks (5 parts for
\* an entry of 5 x maxPartSize).
C17_PartCount ==
  \A id \in WriterSessions :
    sessions[id].status = "completed" =>
      LET n == Len(Decoded.entries[entries[sessions[id].owner].rec].data)
      IN  n % MaxPartSize = 0 =>
            Len(sessions[id].completeArg) * MaxPartSize = n

Queued(i) == i \in DOMAIN entries /\ entries[i].state = "queued"

\* C18: a writer that fails still frees its limiter slot: in the step in
\* which a running writer fails the head of the limiter's queue is started,
\* and an entry queued while a running writer is on its way to throwing
\* (in its own abort) is eventually admitted.
C18_FailedWriterFreesSlot ==
  /\ [][ \A j \in DOMAIN entries :
           ( /\ entries[j].state \in Running
             /\ entries'[j].state = "failed"
             /\ limitQueue # <<>> )
           => /\ entries'[Head(limitQueue)].state = "reading"
              /\ limitQueue' = Tail(limitQueue) ]_vars
  /\ \A i \in 1..MaxKeys :
       (Queued(i) /\ \E j \in DOMAIN entries : entries[j].state = "abort")
         ~> ~Queued(i)

\* the holder of the only slot failed, and the entry that waited behind it
\* was admitted and ran to its end
C18_Witness ==
  /\ maxParallelFiles = 1
  /\ Len(entries) = 2
  /\ entries[1].state = "failed"
  /\ entries[2].waited
  /\ entries[2].state = "done"

\* C19: if an uploadPart call fails while zip() is still fetching or
\* encoding sources, zip() eventually rejects (unless something else fails
\* as well): it does not stay blocked on an entry completion signal.
C19_UploadFailureRejects ==
  [](( /\ uploadPc = "failed"
       /\ uploadErr = "UploadPartError"
       /\ zipPc \in {"get", "wait", "finalize"} )
     => <>(zipPc = "rejected" \/ Len(faultLog) > 1))

\* C20: if a call of a writer (createMultipartUpload, putObject, uploadPart,
\* completeMultipartUpload) fails, unzip() eventually rejects (unless
\* something else fails as well): it does not block forever on the decoder.
C20_WriterFailureRejects ==
  []((\E i \in DOMAIN entries :
        entries[i].caught \in {"CreateUploadError", "PutObjectError",
                               "UploadPartError", "CompleteUploadError"})
     => <>(unzipPc = "rejected" \/ Len(faultLog) > 1))

\* C21: zip() creates its multipart session lazily, only when the encoder
\* output read so far has reached maxPartSize; an archive that stays below
\* maxPartSize is stored without any multipart session.
C21_LazySession ==
  /\ \A id \in ZipSessions : Len(received) >= MaxPartSize
  /\ (zipPc = "returned" /\ Len(zipObject) < MaxPartSize) => ZipSessions = {}

\* the sessions a writer created, and the objects stored under its key
SessionsOf(i) == { id \in DOMAIN sessions : sessions[id].owner = i }

ObjectsOf(i) == { k \in DOMAIN objects : objects[k].key = entries[i].key }

\* C22: a writer that finished a non-empty entry of at most maxPartSize
\* bytes (exactly maxPartSize included) issued one putObject and created no
\* session; one that finished a longer entry created exactly one session and
\* completed it.
C22_DirectOrMultipart ==
  \A i \in DOMAIN entries :
    entries[i].state = "done" =>
      LET n == Len(Decoded.entries[entries[i].rec].data)
      IN  /\ (0 < n /\ n <= MaxPartSize) =>
                /\ SessionsOf(i) = {}
                /\ Cardinality(ObjectsOf(i)) = 1
          /\ n > MaxPartSize =>
                /\ Cardinality(SessionsOf(i)) = 1
                /\ \A id \in SessionsOf(i) : sessions[id].status = "completed"

\* downloadFile() has handed the entry promise of inputKeys[k] to filesLimit
InLimiter(k) == k \in DOMAIN promises /\ promises[k].state # "none"

\* C23: in zip() the GetObject of a source key is sent only after the
\* limiter slot of that key has been acquired: while the read of
\* inputKeys[zi] is being opened, the key is already in the limiter.
C23_SlotBeforeRead ==
  zipPc = "get" => InLimiter(zi)

\* C24: parts are fixed-size: in every session, of the zip sink or of a
\* writer, every uploaded part but the last has exactly maxPartSize bytes,
\* however the incoming stream is split into chunks.
C24_FixedSizeParts ==
  \A id \in DOMAIN sessions :
    \A k \in 1..(Len(sessions[id].parts) - 1) :
      Len(sessions[id].parts[k].Body) = MaxPartSize

\* C25: a writer never mixes the two upload modes for its key: it sends no
\* putObject once it has created a session, and creates no session once it
\* has sent a putObject; a writer that stored its entry directly owns no
\* session, and one that owns a session stores its entry only by completing
\* that session.
C25_NoModeMix ==
  [][ \A i \in DOMAIN entries' :
        /\ entries'[i].state = "put" => SessionsOf(i)' = {}
        /\ entries'[i].state = "create" => ObjectsOf(i)' = {}
        /\ Cardinality(SessionsOf(i)') <= 1
        /\ SessionsOf(i)' # {} =>
             /\ SessionsOf(i)' = { entries'[i].uploadId }
             /\ Cardinality(ObjectsOf(i)') <= 1
             /\ ObjectsOf(i)' # {} =>
                  sessions'[entries'[i].uploadId].status = "completed"
        /\ i \in DOMAIN entries =>
             /\ (entries[i].state = "put" /\ entries'[i].state # "put") =>
                  entries'[i].state \in {"done", "failed"}
             /\ SessionsOf(i) # {} => entries'[i].state # "put" ]_vars

\* one writer stored its entry with a putObject while another completed a
\* session of its own
C25_Witness ==
  /\ Len(entries) = 2
  /\ entries[1].state = "done"
  /\ entries[2].state = "done"
  /\ SessionsOf(1) # {}
  /\ sessions[entries[1].uploadId].status = "completed"
  /\ SessionsOf(2) = {}
  /\ ObjectsOf(2) # {}

IsPrefix(s, t) == Len(s) <= Len(t) /\ s = SubSeq(t, 1, Len(s))

\* every byte the encoder has written: read by uploadParts() or in the pipe
Emitted == received \o Concat(pipe)

\* C26: the archive holds its entries in the order of inputKeys, and no byte
\* of a later entry is written before the entry before it is written out in
\* full: what the encoder has written is at every moment the beginning of
\* the entries of the opened sources, whole and in inputKeys order, and the
\* archive zip() returns lists them in that order.
C26_EntryOrder ==
  /\ IsPrefix(Emitted, EncoderOutput)
  /\ zipPc = "returned" =>
       /\ zipObject = EncoderOutput
       /\ \A j, k \in DOMAIN ArchivePaths :
            j < k =>
              \E a, b \in DOMAIN inputKeys :
                /\ a < b
                /\ ArchivePaths[j] = fileName(inputKeys[a])
                /\ ArchivePaths[k] = fileName(inputKeys[b])

\* zip() returned an archive of two sources, the second one not empty,
\* with two limiter slots
C26_Witness ==
  /\ zipPc = "returned"
  /\ maxParallelFiles = 2
  /\ Len(inputKeys) = 2
  /\ reads = {1, 2}
  /\ Bucket[inputKeys[1]].body # <<>>
  /\ Bucket[inputKeys[2]].body # <<>>

\* two keys of inputKeys share a basename
DupNames ==
  \E a, b \in DOMAIN inputKeys :
    a # b /\ fileName(inputKeys[a]) = fileName(inputKeys[b])

\* C27: the completion future of an entry is settled by the completion
\* signal of its own entry, also when two keys share a basename: the step
\* that signals entry k complete resolves k's future (unless a cancel has
\* rejected it), a future is resolved only by the signal of its own entry,
\* a pending future stays reachable in the map under its name, and a zip()
\* of keys with a shared basename settles unless a failure is injected.
C27_SharedBasename ==
  /\ [][ \A k \in DOMAIN inputKeys :
           /\ (k \in signalled' /\ k \notin signalled) =>
                promises'[k].state \in {"resolved", "rejected"}
           /\ (promises[k].state = "pending"
                 /\ promises'[k].state = "resolved") => acur = k
           /\ promises'[k].state = "pending" =>
                [name |-> fileName(inputKeys[k]), idx |-> k]
                  \in filePromises' ]_vars
  /\ (DupNames /\ zipPc = "create") ~> (ZipSettled \/ faults > 0)

\* zip() returned an archive of two sources with the same basename, each
\* future resolved by its own entry
C27_Witness ==
  /\ zipPc = "returned"
  /\ DupNames
  /\ signalled = {1, 2}
  /\ promises[1].state = "resolved"
  /\ promises[2].state = "resolved"

\* the records of the archive that are File entries, in archive order
FileRecords ==
  SelectSeq([k \in DOMAIN Decoded.entries |-> k],
            LAMBDA k : Decoded.entries[k].type = "File")

Count(seq, x) == Cardinality({ k \in DOMAIN seq : seq[k] = x })

\* C28: a writer exists only for File entries, one per File entry met, and
\* nothing is stored for an entry of another type; when unzip() returns,
\* outputKeys holds exactly one key, the output prefix + "/" + entry.path,
\* for each File entry of the archive and none for a directory.
C28_KeysOfFileEntries ==
  /\ \A i \in DOMAIN entries :
       /\ entries[i].rec = FileRecords[i]
       /\ entries[i].key = OutputKey(Decoded.entries[entries[i].rec].path)
  /\ \A id \in WriterSessions : sessions[id].owner \in DOMAIN entries
  /\ \A k \in DOMAIN objects :
       \E i \in DOMAIN entries : objects[k].key = entries[i].key
  /\ unzipPc = "returned" =>
       /\ Len(outputKeys) = Len(FileRecords)
       /\ Len(entries) = Len(FileRecords)
       /\ \A r \in Range(FileRecords) :
            LET key == OutputKey(Decoded.entries[r].path)
            IN  Count(outputKeys, key) =
                  Count([k \in DOMAIN FileRecords |->
                           OutputKey(Decoded.entries[FileRecords[k]].path)],
                        key)

\* unzip() returned for an archive with a directory and a file: one key
C28_Witness ==
  /\ unzipPc = "returned"
  /\ \E k \in DOMAIN Decoded.entries : Decoded.entries[k].type = "Directory"
  /\ outputKeys = << OutputKey("e") >>
  /\ Len(entries) = 1

\* C29: when zip() fails inside an export, or unzip() inside an import, the
\* failure is surfaced on the task: once export() / import() has ended on
\* the failure, the task row is Failed (it is not left Running, which no
\* later step would change) and the task's log holds an error entry.
C29_FailureSurfaced ==
  \A t \in {"export", "import"} :
    tasks[t].outcome \in {"thrown", "swallowed"} =>
      /\ tasks[t].status = "Failed"
      /\ "Error" \in Range(tasks[t].logs)

\* C30: abortMultipartUpload is never sent for a session that has been
\* completed and never sent twice for the same session, on any failure path
\* of zip() or unzip(): a step that sends an abort for a session finds it
\* not completed and without an earlier abort.
C30_OneTerminalCall ==
  [][ \A id \in DOMAIN sessions :
        sessions'[id].abortIssued > sessions[id].abortIssued =>
          /\ sessions[id].status # "completed"
          /\ sessions[id].abortIssued = 0
          /\ sessions'[id].abortIssued = 1 ]_vars

\* C31: no uploadPart and no completeMultipartUpload is sent for a session
\* after abortMultipartUpload has been sent for it: a step in which the zip
\* upload loop or a writer sends a part, or in which a complete call goes
\* out, finds no abort sent for that session.
C31_NoUseAfterAbort ==
  [][ /\ (uploadPc' = "part" /\ uploadPc # "part") =>
           sessions'[uploadId'].abortIssued = 0
      /\ \A i \in DOMAIN entries :
           (entries'[i].state = "part" /\ entries[i].state # "part") =>
             sessions'[entries'[i].uploadId].abortIssued = 0
      /\ \A id \in DOMAIN sessions :
           sessions'[id].completeIssued > sessions[id].completeIssued =>
             sessions[id].abortIssued = 0 ]_vars

\* the writer states in which a request to the object store is in flight
Requesting == {"create", "part", "put", "complete", "abort"}

\* C32: after zip() or unzip() has returned or rejected the job sends no
\* further request to the object store: once zip() has settled no GetObject,
\* uploadPart, complete or abort of the zip goes out, and once unzip() has
\* settled no writer sends a request.
C32_QuietAfterSettle ==
  [][ /\ ZipSettled =>
           /\ ~(uploadPc' = "part" /\ uploadPc # "part")
           /\ ~(zipPc' = "get")
           /\ \A id \in ZipSessions :
                /\ sessions'[id].abortIssued = sessions[id].abortIssued
                /\ sessions'[id].completeIssued = sessions[id].completeIssued
      /\ UnzipSettled =>
           \A i \in DOMAIN entries :
             entries'[i].state \in Requesting =>
               entries'[i].state = entries[i].state ]_vars

\* C33: zip() takes its sources strictly one after another: the GetObject
\* of inputKeys[i+1] is sent only after the encoder has signalled the entry
\* of inputKeys[i] complete, and at most one source read is outstanding at
\* any time, whatever maxParallelFiles is.
C33_OneSourceAtATime ==
  [][ /\ (zipPc' = "get" /\ zi' > 1 /\ (zipPc # "get" \/ zi' # zi)) =>
           (zi' - 1) \in signalled
      /\ Cardinality(reads' \ signalled') <= 1 ]_vars

\* C34: no uploaded part is empty, and every part of a session other than
\* its last one has at least maxPartSize bytes, in zip() and in every
\* writer, however the incoming stream is split into chunks and also when
\* the total size is an exact multiple of maxPartSize.
C34_PartSizes ==
  \A id \in DOMAIN sessions :
    LET parts == sessions[id].parts
    IN  /\ \A k \in DOMAIN parts : Len(parts[k].Body) > 0
        /\ \A k \in 1..(Len(parts) - 1) : Len(parts[k].Body) >= MaxPartSize

\* a completed writer session of several parts whose total is an exact
\* multiple of maxPartSize
C34_Witness ==
  \E id \in WriterSessions :
    /\ sessions[id].status = "completed"
    /\ Len(sessions[id].parts) >= 2
    /\ \A k \in DOMAIN sessions[id].parts :
         Len(sessions[id].parts[k].Body) = MaxPartSize

\* C35: in a run where no object-store call and no stream fails (no fault
\* is injected and the decoder raises no error), a zip() that was called
\* returns, for every inputKeys list including the empty one, and an
\* unzip() that was called returns, also for an archive with more File
\* entries than maxParallelFiles: the decoder, the queued writers and the
\* limiter do not deadlock.
C35_NoDeadlock ==
  /\ (zipPc = "create") ~> (zipPc = "returned" \/ faults > 0)
  /\ (unzipPc = "fetch") ~>
       (unzipPc = "returned" \/ faults > 0 \/ parserPc = "error")

\* unzip() returned without a fault from an archive that made a writer wait
\* for a slot of the limiter
C35_Witness ==
  /\ unzipPc = "returned"
  /\ faults = 0
  /\ Len(FileRecords) > maxParallelFiles
  /\ \E i \in DOMAIN entries : entries[i].waited

\* C36: for one task id the export or import body is started at most once,
\* also when two execute_task jobs of that id are handled concurrently: the
\* status check of executeTaskHandler and the later transition to Running
\* never let two handlers both pass the check.
C36_BodyStartedOnce ==
  \A t \in DOMAIN tasks :
    /\ tasks[t].passed + tasks[t].started <= 1
    /\ tasks[t].started <= 1

\* C37: the paginated loop of exportNodeReactions ends for every content of
\* the node_reactions table, also when a whole page of READ_BATCH_SIZE rows
\* holds only reactions with deleted_at set: the cursor advances on every
\* page that is not empty, so a table of n rows is read with at most n + 1
\* queries.
C37_CursorAdvances ==
  [][ /\ (queries' > queries /\ exportPc' = "exportNodeReactions") =>
           lastRevision' > lastRevision
      /\ queries' <= Len(reactions) + 1 ]_vars

\* the batches of this.uploadFileKeys as zipUploadFiles() reads them
Batches ==
  [i \in DOMAIN uploadFileKeys |->
     Deref(uploadFileKeys[i], [fileKeys |-> fileKeys])]

UploadedPaths ==
  { uploads[k].path : k \in { j \in DOMAIN uploads : uploads[j].uploaded } }

\* the key p is held once, by one sequence of bs
InExactlyOne(p, bs) ==
  /\ Cardinality({ i \in DOMAIN bs : p \in Range(bs[i]) }) = 1
  /\ \A i \in DOMAIN bs : Count(bs[i], p) <= 1

\* C38: after exportUploads every upload with uploaded_at set has its path
\* in exactly one batch of uploadFileKeys and each batch still holds the
\* keys it had when it was pushed; after zipUploadFiles every uploaded file
\* was given as an input key to exactly one S3Zip, the files of the last,
\* not yet full, batch included.
C38_UploadBatches ==
  /\ exportPc \in {"zipDataFiles", "zipUploadFiles", "completeTask"} =>
       /\ \A p \in UploadedPaths : InExactlyOne(p, Batches)
       /\ Batches = pushed
  /\ exportPc = "completeTask" =>
       \A p \in UploadedPaths : InExactlyOne(p, zipped)

====
